---- MODULE Spec2Model ----
(***************************************************************************)
(* State-machine model of the Level runtime of vxl-baby                    *)
(* (src/src/game/levels/Level.ts on top of src/src/game/levels/BaseLevel.ts *)
(* and the DialogueManager of src/unnamed/part_011).                        *)
(*                                                                         *)
(* Scene objects (NPC wrappers with their mesh, portals with their mesh,   *)
(* prop root meshes) live in a heap `objs`; an object is named by its      *)
(* position in that heap.  A JavaScript Map is a function with a finite    *)
(* domain.  World positions are points on a line, Vector3.Distance is the  *)
(* absolute difference.                                                    *)
(***************************************************************************)
EXTENDS Integers, Sequences, FiniteSets, TLC

\* ------------------------------------------------------------------------
\* Bounds of the model
\* ------------------------------------------------------------------------
MaxPos == 6          \* player positions are 0..MaxPos
MaxObjs == 4         \* scene objects ever created by one Level
MaxPending == 1      \* asset loads in flight at the same time (live API)
MaxIndex == 2        \* indices passed to the live-editing API are 0..MaxIndex
MaxListLen == 3      \* longest spawn list of the bulk-load specification
MaxLiveCalls == 2    \* live-API calls made on one Level

\* ------------------------------------------------------------------------
\* Program constants
\* ------------------------------------------------------------------------
INTERACTION_RADIUS == 3
PlayerStart == 0

NoIndex == -1        \* "no index": null / undefined index values

\* ------------------------------------------------------------------------
\* JavaScript Map helpers
\* ------------------------------------------------------------------------
EmptyMap == [x \in {} |-> 0]

MapSet(m, k, v) == [x \in (DOMAIN m) \cup {k} |-> IF x = k THEN v ELSE m[x]]

MapDelete(m, k) == [x \in (DOMAIN m) \ {k} |-> m[x]]

MapHas(m, k) == k \in DOMAIN m

MapValues(m) == {m[k] : k \in DOMAIN m}

Abs(x) == IF x < 0 THEN -x ELSE x

Distance(a, b) == Abs(a - b)

Min(a, b) == IF a < b THEN a ELSE b

\* ------------------------------------------------------------------------
\* Level documents
\* ------------------------------------------------------------------------
\* An EntitySpawn.  `talk` abstracts scriptSource / dialogue / successDialogue:
\* which branch of handleNPCInteraction the spawn takes.
MkSpawn(t, p, n, e, a, k) ==
    [type |-> t, position |-> p, name |-> n, entity |-> e, asset |-> a, talk |-> k]

NpcGuard == MkSpawn("npc", 3, "guard", "", "a.glb", "dialogue")
NpcWife == MkSpawn("npc", 8, "", "wife", "", "script")
NpcMute == MkSpawn("npc", 5, "", "", "b.glb", "none")
NpcBad == MkSpawn("npc", 1, "ghost", "", "", "none")
PortalOut == MkSpawn("portal", 2, "", "", "", "none")
PropBox == MkSpawn("prop", 1, "", "", "c.glb", "none")

SpawnChoices == {NpcGuard, NpcWife, NpcMute, NpcBad, PortalOut, PropBox}

\* keys of the ENTITIES catalog that resolve to an NPC
EntityKeys == {"wife"}

\* A Trigger object: `gen` tells the JavaScript objects of two documents
\* apart (object identity), `slot` is its place in the trigger list.
MkTrigger(g, s, o, tg, r, acts) ==
    [gen |-> g, slot |-> s, type |-> "proximity", once |-> o, target |-> tg,
     radius |-> r, actions |-> acts]

MkAction(t, v) == [type |-> t, value |-> v]

TriggerList(g) ==
    << MkTrigger(g, 1, TRUE, "guard", 2,
                 << MkAction("playSound", "scream"), MkAction("playDialogue", "intro") >>),
       MkTrigger(g, 2, FALSE, "wife", 3,
                 << MkAction("setSpotlightIntensity", "0") >>) >>

MaxGen == 1

\* LevelConfig.music left out
NoMusic == "undefined"

MkConfig(ents, g, ds) ==
    [entities |-> ents, triggers |-> TriggerList(g), dialogues |-> ds, music |-> NoMusic]

EntityLists ==
    { << NpcGuard, NpcWife, PortalOut >>,
      << PropBox, NpcGuard >> }

\* spawn descriptors the editor adds to a running level
LiveSpawns == {NpcGuard, PortalOut, PropBox}

Documents == { MkConfig(ents, g, {"intro"}) : ents \in EntityLists, g \in 0..MaxGen }

\* the documents that differ from config in non-structural settings only:
\* same entity list, the trigger list parsed again or kept
Redeclared(config) == { [config EXCEPT !.triggers = TriggerList(g)] : g \in 0..MaxGen }

RECURSIVE SeqsUpTo(_, _)
SeqsUpTo(S, n) ==
    IF n = 0 THEN { << >> }
    ELSE LET shorter == SeqsUpTo(S, n - 1)
         IN shorter \cup { Append(s, x) : s \in {t \in shorter : Len(t) = n - 1}, x \in S }

\* outcomes of AssetManager.loadMesh
Outcomes == {"ok", "throw", "empty"}

\* ------------------------------------------------------------------------
\* State
\* ------------------------------------------------------------------------
VARIABLES
    levelConfig,           \* Level.levelConfig
    npcs,                  \* Level.npcs: index -> object
    portals,               \* Level.portals
    props,                 \* Level.props
    triggerStates,         \* Level.triggerStates: Trigger object -> triggered
    npcDialogueTriggered,  \* Level.npcDialogueTriggered: set of indices
    entityMeshIndex,       \* Level.entityMeshIndex: index -> object (mesh)
    npcNameIndex,          \* Level.npcNameIndex: name -> object
    isEditorMode,          \* Level.isEditorMode
    currentInteractingNPC, \* Level.currentInteractingNPC
    objs,                  \* heap of scene objects
    player,                \* BaseLevel.player: [here, pos, vel]
    dm,                    \* DialogueManager: [dialogues, active, isScriptMode]
    loadPc,                \* progress of load(): "new", "player", "spawning", "done"
    loadIdx,               \* loop variable i of spawnAllEntities
    loadEnts,              \* `entities` captured by spawnAllEntities
    pending,               \* live-API calls waiting for their asset load
    levelDisposed,         \* Level.dispose() was called
    tickLog,               \* what the latest update() tick did (history)
    fireCount,             \* trigger slot -> executions of its actions, up to 2 (history)
    inVisit,               \* indices dispatched since a proximity check last saw the player out of range (history)
    loadLog,               \* outcome of each spawn of the last load() (history)
    liveCalls,             \* number of live-API calls made so far
    quest,                 \* the quest graph being walked and what the walk has shown (history)
    dlg,                   \* DialogueManager of src/src/managers: state of the dialogue box
    npcw,                  \* an NPC object of src/src/entities/NPC.ts and its latest call (history)
    ptl,                   \* Portal objects: fields, and dispose() calls received by their light, material and mesh
    rt,                    \* the Level's scene resources: dispose() calls each has received
    ed,                    \* the Level's editor session: portals, meshes, gizmo manager, callbacks made (history)
    sw,                    \* the latest live-API call if it was a model swap, and what it found (history)
    lm,                    \* LevelManager: the levels it has created, the current one, the error of the latest call
    audio,                 \* Level.currentMusic, the looped sounds the AudioManager holds, and the audio calls of the latest hotUpdate (history)
    scr,                   \* ScriptManager: blocks, variables, position, and its latest call (history)
    talk,                  \* DialogueManager of src/unnamed/part_011: its fields, and what its latest call did (history)
    store                  \* LevelStore: ids in its level and metadata maps, localStorage, and its latest call (history)

levelVars == << levelConfig, npcs, portals, props, triggerStates, npcDialogueTriggered,
                entityMeshIndex, npcNameIndex, isEditorMode, currentInteractingNPC,
                objs, player, dm, loadPc, loadIdx, loadEnts, pending, levelDisposed,
                tickLog, fireCount, inVisit, loadLog, liveCalls >>

\* the state of the parts modelled beside the Level runtime
questVars == << quest, dlg >>

\* the state added beside the parts above
rest == << scr, talk, store >>
later == << sw, audio, lm, rest >>

\* the parts modelled beside the Level
beside == << questVars, npcw, ptl, rt, ed >>

others == << beside, later >>

\* what the dialogue box leaves alone
notQuest == << levelVars, npcw, ptl, rt, ed, later >>

\* what an NPC object leaves alone
notNpcw == << levelVars, questVars, ptl, rt, ed, later >>

\* what a Portal object leaves alone
notPtl == << levelVars, questVars, npcw, rt, ed, later >>

\* what the editor session leaves alone
notEd == << levelVars, questVars, npcw, ptl, rt, later >>

vars == << levelVars, others >>

registries == << npcs, portals, props, entityMeshIndex, npcNameIndex >>

history == << tickLog, fireCount, inVisit, loadLog, liveCalls >>

NoTick == [ran |-> FALSE, editor |-> FALSE, activeAtStart |-> FALSE, checked |-> FALSE,
           dispatch |-> NoIndex, flagsBefore |-> {}, visitBefore |-> {}, near |-> {}, inRadius |-> {}, fired |-> {},
           statesBefore |-> EmptyMap]

\* ------------------------------------------------------------------------
\* Scene objects
\* ------------------------------------------------------------------------
NoMeta == [type |-> "none", index |-> NoIndex, entityType |-> "none", id |-> ""]

\* Level.setEntityMetadata
setEntityMetadata(index, entityType, id) ==
    [type |-> "entity", index |-> index, entityType |-> entityType, id |-> id]

\* isEntityMetadata
isEntityMetadata(meta) == meta.type = "entity"

\* a mesh as the asset loader or the portal factory hands it over:
\* rotation 0 and scaling 1 until somebody sets them
MkObj(kind, position, meta) ==
    [kind |-> kind, position |-> position, rotation |-> 0, scaling |-> 1, meta |-> meta,
     disposed |-> FALSE]

\* The five index structures and the heap, as one value the operations
\* below transform.
Regs ==
    [npcs |-> npcs, portals |-> portals, props |-> props,
     entityMeshIndex |-> entityMeshIndex, npcNameIndex |-> npcNameIndex, objs |-> objs]

\* the objects some registry or index of the Level still refers to
Referenced(R) ==
    MapValues(R.npcs) \cup MapValues(R.portals) \cup MapValues(R.props)
    \cup MapValues(R.entityMeshIndex) \cup MapValues(R.npcNameIndex)

\* A disposed object nothing refers to can never be reached again: it is
\* dropped from the heap, and its name can be given to a later object.
Collect(R) ==
    [R EXCEPT !.objs = [o \in {x \in DOMAIN R.objs : ~R.objs[x].disposed \/ x \in Referenced(R)}
                          |-> R.objs[o]]]

SetRegs(R) ==
    LET C == Collect(R)
    IN /\ npcs' = C.npcs
       /\ portals' = C.portals
       /\ props' = C.props
       /\ entityMeshIndex' = C.entityMeshIndex
       /\ npcNameIndex' = C.npcNameIndex
       /\ objs' = C.objs

\* the name of the next object created
NewObj(os) == CHOOSE o \in 1..(Cardinality(DOMAIN os) + 1) : o \notin DOMAIN os

\* NPC.dispose / Portal mesh dispose / prop dispose: release object o
DisposeObj(os, o) == [os EXCEPT ![o].disposed = TRUE]

DisposeAll(os, S) == [o \in DOMAIN os |-> IF o \in S THEN [os[o] EXCEPT !.disposed = TRUE] ELSE os[o]]

\* ------------------------------------------------------------------------
\* Spawning (Level.spawnEntityAtIndex and the three spawn methods)
\* ------------------------------------------------------------------------
\* EntityFactory.resolveNPCConfig succeeds
ResolvesNPC(spawn) == spawn.entity \in EntityKeys \/ spawn.asset # ""

\* EntityFactory.spawnNPC resolves to an NPC (a load without a root mesh
\* makes the NPC constructor throw)
NPCLoads(spawn, outcome) == ResolvesNPC(spawn) /\ outcome = "ok"

\* name under which spawnNPC registers the NPC
SpawnNPCName(spawn, index) ==
    IF spawn.name # "" THEN spawn.name
    ELSE IF spawn.entity # "" THEN spawn.entity
    ELSE IF spawn.asset # "" THEN spawn.asset
    ELSE "npc_" \o ToString(index)

spawnNPC(R, index, spawn) ==
    LET o == NewObj(R.objs)
        name == SpawnNPCName(spawn, index)
    IN [R EXCEPT !.objs = MapSet(R.objs, o, MkObj("npc", spawn.position,
                                              setEntityMetadata(index, "npc", name))),
                 !.npcs = MapSet(R.npcs, index, o),
                 !.npcNameIndex = MapSet(R.npcNameIndex, name, o),
                 !.entityMeshIndex = MapSet(R.entityMeshIndex, index, o)]

spawnPortal(R, index, spawn) ==
    LET o == NewObj(R.objs)
    IN [R EXCEPT !.objs = MapSet(R.objs, o, MkObj("portal", spawn.position,
                                              setEntityMetadata(index, "portal", ""))),
                 !.portals = MapSet(R.portals, index, o),
                 !.entityMeshIndex = MapSet(R.entityMeshIndex, index, o)]

\* spawnProp without its `this.props.set(index, root)`
spawnPropUnregistered(R, index, spawn, outcome) ==
    LET o == NewObj(R.objs)
    IN IF outcome = "empty" THEN R
       ELSE [R EXCEPT !.objs = MapSet(R.objs, o, MkObj("prop", spawn.position,
                                                    setEntityMetadata(index, "prop", ""))),
                      !.entityMeshIndex = MapSet(R.entityMeshIndex, index, o)]

\* Level.spawnProp
spawnProp(R, index, spawn, outcome) ==
    LET o == NewObj(R.objs)
    IN IF outcome = "empty" THEN R
       ELSE [R EXCEPT !.objs = MapSet(R.objs, o, MkObj("prop", spawn.position,
                                                    setEntityMetadata(index, "prop", ""))),
                      !.props = MapSet(R.props, index, o),
                      !.entityMeshIndex = MapSet(R.entityMeshIndex, index, o)]

\* the spawn raises an exception inside spawnEntityAtIndex's try block
SpawnThrows(spawn, outcome) ==
    CASE spawn.type = "npc" -> ~NPCLoads(spawn, outcome)
      [] spawn.type = "prop" -> outcome = "throw"
      [] OTHER -> FALSE

\* Level.spawnEntityAtIndex
spawnEntityAtIndex(R, index, spawn, outcome) ==
    IF SpawnThrows(spawn, outcome) THEN R
    ELSE CASE spawn.type = "npc" -> spawnNPC(R, index, spawn)
           [] spawn.type = "portal" -> spawnPortal(R, index, spawn)
           [] spawn.type = "prop" -> spawnProp(R, index, spawn, outcome)
           [] OTHER -> R

\* outcomes that make a difference for the spawn (a portal loads no asset)
OutcomesFor(spawn) == IF spawn.type = "portal" THEN {"ok"} ELSE Outcomes

\* Level.disposeAllEntities
disposeAllEntities(R) ==
    [R EXCEPT !.objs = DisposeAll(R.objs, MapValues(R.npcs) \cup MapValues(R.portals)
                                          \cup MapValues(R.props)),
              !.npcs = EmptyMap,
              !.portals = EmptyMap,
              !.props = EmptyMap,
              !.entityMeshIndex = EmptyMap,
              !.npcNameIndex = EmptyMap]

\* ------------------------------------------------------------------------
\* DialogueManager (src/unnamed/part_011)
\* ------------------------------------------------------------------------
\* DialogueManager.register
DMRegister(d, id) == [d EXCEPT !.dialogues = @ \cup {id}]

\* DialogueManager.play
DMPlay(d, id) == IF id \in d.dialogues THEN [d EXCEPT !.active = TRUE] ELSE d

\* DialogueManager.startScript (a script with at least one line)
DMStartScript(d) == [d EXCEPT !.active = TRUE, !.isScriptMode = TRUE]

\* DialogueManager.stop
DMStop(d) == [d EXCEPT !.active = FALSE, !.isScriptMode = FALSE]

\* DialogueManager.isDialoguePlaying
isDialoguePlaying(d) == d.active

\* Level.registerDialogues
registerDialogues(d, config) == [d EXCEPT !.dialogues = @ \cup config.dialogues]

\* Level.initializeTriggers
initializeTriggers(config) ==
    [t \in {config.triggers[k] : k \in 1..Len(config.triggers)} |-> FALSE]

\* ------------------------------------------------------------------------
\* load()
\* ------------------------------------------------------------------------
InitialDM == [dialogues |-> {}, active |-> FALSE, isScriptMode |-> FALSE]

NoPlayer == [here |-> FALSE, pos |-> PlayerStart, vel |-> 0]

\* the Level and its collaborators after `new Level(config)`
LevelInit(config) ==
    /\ levelConfig = config
    /\ npcs = EmptyMap
    /\ portals = EmptyMap
    /\ props = EmptyMap
    /\ triggerStates = EmptyMap
    /\ npcDialogueTriggered = {}
    /\ entityMeshIndex = EmptyMap
    /\ npcNameIndex = EmptyMap
    /\ isEditorMode = FALSE
    /\ currentInteractingNPC = NoIndex
    /\ objs = EmptyMap
    /\ player = NoPlayer
    /\ dm = InitialDM
    /\ loadPc = "new"
    /\ loadIdx = 0
    /\ loadEnts = << >>
    /\ pending = {}
    /\ levelDisposed = FALSE
    /\ tickLog = NoTick
    /\ fireCount = [s \in 1..Len(config.triggers) |-> 0]
    /\ inVisit = {}
    /\ loadLog = << >>
    /\ liveCalls = 0

\* ------------------------------------------------------------------------
\* Quest graphs and the dialogue box: values before anything has run
\* ------------------------------------------------------------------------
NoNode == 0          \* "no node": null / undefined node

NoLink == 0          \* "no link": an output without links

NoRaf == 0           \* rafId = null

\* a Dialogue as registered by executeQuestGraph: a "say" dialogue has an
\* onComplete that runs node `next`, a "choice" dialogue has an onChoice
\* that follows the outputs of node `node`
MkDialogue(kind, node, lines, next) ==
    [kind |-> kind, node |-> node, lines |-> lines, next |-> next]

NoDialogue == MkDialogue("none", NoNode, << >>, NoNode)

\* a DialogueLine
MkLine(text, choices) == [text |-> text, choices |-> choices]

\* DialogueManager (src/src/managers) after construction
InitialDlg ==
    [current |-> NoDialogue, lineIndex |-> 0, active |-> FALSE, isTyping |-> FALSE,
     waitingForInput |-> FALSE, choices |-> << >>, anims |-> {}, rafId |-> NoRaf,
     listening |-> FALSE, visible |-> FALSE]

NoGraph == [nodes |-> << >>, links |-> {}]

NoQuest == [graph |-> NoGraph, starts |-> 0, log |-> << >>, threw |-> FALSE, stuck |-> "no"]

QuestIdle == quest = NoQuest /\ dlg = InitialDlg

\* no animation: undefined, or currentAnim = null
NoAnim == 0

NoCall == [op |-> "none", name |-> << >>, result |-> FALSE, currentBefore |-> NoAnim,
           playingBefore |-> {}, disposedBefore |-> FALSE]

\* the fields of an NPC object before its constructor plays anything;
\* agDisposed and meshDisposed count the dispose() calls each animation
\* group and the mesh have received
MkNPC(animList) ==
    [animList |-> animList, currentAnim |-> NoAnim, playing |-> {}, disposed |-> FALSE,
     agDisposed |-> [k \in 1..Len(animList) |-> 0], meshDisposed |-> 0, call |-> NoCall]

\* an NPC built from an asset without animation groups and never touched
NpcIdle == npcw = MkNPC(<< >>)

\* the fields of a Portal object and of the scene objects it creates, before
\* its constructor sets up the interaction: light, material and mesh count
\* the dispose() calls each has received, loads and sounds the level loads
\* and teleport sounds requested, path names the latest disposal
MkPortal ==
    [disposed |-> FALSE, editorMode |-> FALSE, renderObserver |-> TRUE, am |-> FALSE,
     handlers |-> 0, hook |-> TRUE, lightParented |-> TRUE, registered |-> TRUE,
     light |-> 0, material |-> 0, mesh |-> 0, loads |-> 0, sounds |-> 0, path |-> "none"]

\* the scene resources of a Level that holds no entity
NoRuntime ==
    [calls |-> 0, playerDisposed |-> FALSE, player |-> 0, shadowGenerator |-> 0,
     hasPipeline |-> FALSE, pipeline |-> 0, scene |-> 0, held |-> FALSE]

PortalIdle == ptl = << >> /\ rt = NoRuntime

\* no mesh: null
NoMesh == 0

\* no gizmo handle hovered
NoHover == [kind |-> "none", axis |-> "none"]

\* a mesh of the scene: its parent, the index of its entity metadata
\* (NoIndex without entity metadata) and its transform
MkMesh(parent, meta) ==
    [parent |-> parent, meta |-> meta, position |-> 0, rotation |-> 0, scaling |-> 0]

\* the editor state of a loaded Level before enableEditorMode; selects,
\* lastSelect, changes and lastChange record the callbacks made, drags the
\* drag events so far
MkEditor(meshes) ==
    [isEditorMode |-> FALSE, entered |-> FALSE, portals |-> EmptyMap, meshes |-> meshes,
     gm |-> FALSE, gizmos |-> {}, enabled |-> {}, observers |-> {}, pointerObserver |-> FALSE,
     hovered |-> NoHover, attachedMesh |-> NoMesh,
     selects |-> 0, lastSelect |-> [kind |-> "none", index |-> NoIndex],
     changes |-> 0, drags |-> 0,
     lastChange |-> [index |-> NoIndex, position |-> 0, rotation |-> 0, scaling |-> 0]]

EditorIdle == ed = MkEditor(<< >>)

\* no model swap has been asked for
NoSwap ==
    [op |-> "none", index |-> NoIndex, had |-> FALSE, name |-> "", position |-> NoIndex,
     rotation |-> NoIndex, scaling |-> NoIndex, disposals |-> 0, settled |-> FALSE,
     outcome |-> "none"]

\* a Level that has not played anything, and an AudioManager holding no sound
NoAudio == [currentMusic |-> NoMusic, playing |-> {}, calls |-> << >>]

\* no level: currentLevel is undefined
NoLevel == 0

\* a LevelManager of the given revision ("store": src/unnamed/part_005,
\* "factories": src/src/managers/LevelManager.ts) that has loaded nothing
MkLevelManager(revision) ==
    [revision |-> revision, currentLevel |-> NoLevel, currentLevelId |-> "", levels |-> << >>,
     loads |-> 0, error |-> "none"]

ManagerIdle == lm = MkLevelManager("store")

\* ---- ScriptManager (src/src/game/managers/ScriptManager.ts) ----
\* what parseInt gives for text that does not start with a number
NaN == -1

\* ScriptLine
MkScriptLine(type, text, options, target, command, args) ==
    [type |-> type, text |-> text, options |-> options, target |-> target,
     command |-> command, args |-> args]

\* the null that next() returns
NullLine == MkScriptLine("null", "", << >>, "", "", << >>)

\* a ScriptManager as constructed; currentBlock "" is null; `last` records
\* the latest call: its name, the line it returned, whether it failed to
\* return, and every handleAction it ran
NoLast == [call |-> "none", line |-> NullLine, threw |-> FALSE, acts |-> << >>]

MkScriptManager ==
    [blocks |-> EmptyMap, variables |-> EmptyMap, currentBlock |-> "", currentIndex |-> 0,
     active |-> FALSE, last |-> NoLast]

\* ---- DialogueManager (src/unnamed/part_011) ----
\* a callback: what a dialogue's onComplete / onChoice or a script's
\* onComplete does when it is called
MkCallback(do, arg) == [do |-> do, arg |-> arg]

NoCallback == MkCallback("undefined", "")

\* currentLine when it is null
NullTalkLine == MkLine("", << >>)

\* a DialogueManager as constructed; current "" is undefined, rafId is
\* whether a typewriter frame is requested, inputListener whether the
\* listener is attached, choices the choice buttons shown, hidden whether
\* hide() was the latest of show() and hide().  History: `latest` is what
\* play or startScript started last ("script" or a dialogue id), lineOf
\* whether advanceScript or nextLine gave the line shown, `ends` every
\* end() of the latest call and `picked` its choice selection
MkDialogueManager ==
    [current |-> "", lineIndex |-> 0, active |-> FALSE, isTyping |-> FALSE,
     waitingForInput |-> FALSE, isScriptMode |-> FALSE, scriptOnComplete |-> NoCallback,
     currentChoiceTargets |-> << >>, currentLine |-> NullTalkLine, rafId |-> FALSE,
     inputListener |-> FALSE, choices |-> << >>, hidden |-> TRUE, latest |-> "",
     lineOf |-> "", ends |-> << >>, picked |-> << >>]

\* ---- LevelStore (src/unnamed/part_006) ----
\* a level id as generateId builds it: the base made of the name, one
\* "_copy" per " (Copy)" in the name, and the counter suffix, 0 for none
MkId(base, copies, n) == [base |-> base, copies |-> copies, n |-> n]

Starter == MkId("starter", 0, 0)

\* localStorage: the ids in the metadata key, the ids that have a level key
\* of their own, and the legacy key holding whole configs
MkStorage(meta, keys, legacy, old) == [meta |-> meta, keys |-> keys, legacy |-> legacy, old |-> old]

NoStoreCall == [call |-> "none", id |-> Starter, returned |-> FALSE, removed |-> FALSE]

\* the store before its constructor has run
MkLevelStore(storage) == [levels |-> {}, meta |-> {}, storage |-> storage, last |-> NoStoreCall]

StoreIdle == store = MkLevelStore(MkStorage({}, {}, FALSE, {}))

RestIdle == scr = MkScriptManager /\ talk = MkDialogueManager /\ StoreIdle

LaterIdle == sw = NoSwap /\ audio = NoAudio /\ ManagerIdle /\ RestIdle

OthersIdle == QuestIdle /\ NpcIdle /\ PortalIdle /\ EditorIdle /\ LaterIdle

InitWith(config) == LevelInit(config) /\ OthersIdle
\* the keys of AudioManager.soundRegistry
soundRegistry == {"teleport", "demon_voice", "level_1", "level_2", "typing"}

\* a music key is truthy: neither undefined nor the empty string
Truthy(key) == key # NoMusic /\ key # ""

\* AudioManager.play(name, true): a name without a registered path plays
\* nothing
audioPlay(a, name) ==
    IF name \in soundRegistry THEN [a EXCEPT !.playing = @ \cup {name}] ELSE a

\* AudioManager.stopAll
audioStopAll(a) == [a EXCEPT !.playing = {}]

\* the audio part of Level.onLoad
onLoadMusic(a, config) ==
    IF Truthy(config.music)
    THEN [audioPlay(audioStopAll(a), config.music) EXCEPT !.currentMusic = config.music]
    ELSE audioStopAll(a)

\* the music part of hotUpdate without its `this.currentMusic = config.music`
hotUpdateMusicUnrecorded(a, config) ==
    IF config.music # a.currentMusic
    THEN IF Truthy(config.music)
         THEN [audioPlay(audioStopAll(a), config.music)
                  EXCEPT !.calls = << "stopAll", "play" >>]
         ELSE [audioStopAll(a) EXCEPT !.calls = << "stopAll" >>]
    ELSE [a EXCEPT !.calls = << >>]

\* the music part of Level.hotUpdate
hotUpdateMusic(a, config) ==
    IF config.music # a.currentMusic
    THEN IF Truthy(config.music)
         THEN [audioPlay(audioStopAll(a), config.music)
                  EXCEPT !.calls = << "stopAll", "play" >>, !.currentMusic = config.music]
         ELSE [audioStopAll(a) EXCEPT !.calls = << "stopAll" >>, !.currentMusic = config.music]
    ELSE [a EXCEPT !.calls = << >>]

\* BaseLevel.load up to the await of loadPlayer
LoadBegin ==
    /\ loadPc = "new"
    /\ loadPc' = "player"
    /\ tickLog' = NoTick
    /\ UNCHANGED << levelConfig, registries, objs, triggerStates, npcDialogueTriggered,
                    isEditorMode, currentInteractingNPC, player, dm, loadIdx, loadEnts,
                    pending, levelDisposed, fireCount, inVisit, loadLog, liveCalls >>
    /\ UNCHANGED others

\* loadPlayer resolves; Level.onLoad runs up to the first spawn of
\* spawnAllEntities
LoadPlayer ==
    /\ loadPc = "player"
    /\ player' = [here |-> TRUE, pos |-> PlayerStart, vel |-> 0]
    /\ SetRegs(disposeAllEntities(Regs))
    /\ loadEnts' = levelConfig.entities
    /\ loadIdx' = 0
    /\ loadLog' = << >>
    /\ loadPc' = "spawning"
    /\ tickLog' = NoTick
    /\ audio' = onLoadMusic(audio, levelConfig)
    /\ UNCHANGED << levelConfig, triggerStates, npcDialogueTriggered, isEditorMode,
                    currentInteractingNPC, dm, pending, levelDisposed, fireCount, inVisit, liveCalls >>
    /\ UNCHANGED << beside, sw, lm, rest >>

\* one iteration of the loop of spawnAllEntities
LoadSpawn ==
    /\ loadPc = "spawning"
    /\ loadIdx < Len(loadEnts)
    /\ Cardinality(DOMAIN objs) < MaxObjs
    /\ \E outcome \in OutcomesFor(loadEnts[loadIdx + 1]) :
         /\ SetRegs(spawnEntityAtIndex(Regs, loadIdx, loadEnts[loadIdx + 1], outcome))
         /\ loadLog' = Append(loadLog, outcome)
    /\ loadIdx' = loadIdx + 1
    /\ tickLog' = NoTick
    /\ UNCHANGED << levelConfig, triggerStates, npcDialogueTriggered, isEditorMode,
                    currentInteractingNPC, player, dm, loadPc, loadEnts, pending,
                    levelDisposed, fireCount, inVisit, liveCalls >>
    /\ UNCHANGED others

\* the rest of Level.onLoad: registerDialogues, initializeTriggers
LoadFinish ==
    /\ loadPc = "spawning"
    /\ loadIdx = Len(loadEnts)
    /\ dm' = registerDialogues(dm, levelConfig)
    /\ triggerStates' = initializeTriggers(levelConfig)
    /\ loadPc' = "done"
    /\ tickLog' = NoTick
    /\ UNCHANGED << levelConfig, registries, objs, npcDialogueTriggered, isEditorMode,
                    currentInteractingNPC, player, loadIdx, loadEnts, pending,
                    levelDisposed, fireCount, inVisit, loadLog, liveCalls >>
    /\ UNCHANGED others

\* ------------------------------------------------------------------------
\* update(): one frame tick
\* ------------------------------------------------------------------------
InRange(pl, R, o, radius) == Distance(pl.pos, R.objs[o].position) < radius

\* Level.handleNPCInteraction: its effect on the DialogueManager
handleNPCInteraction(d, index, spawn) ==
    CASE spawn.talk = "script" -> DMStartScript(d)
      [] spawn.talk = "dialogue" ->
            DMPlay(DMRegister(d, "npc_" \o ToString(index) \o "_default"),
                   "npc_" \o ToString(index) \o "_default")
      [] OTHER -> d

\* The loop of Level.checkNPCProximity from index i on; the result is the
\* new npcDialogueTriggered set and the index handed to handleNPCInteraction
\* (NoIndex when the loop runs to its end).
RECURSIVE checkNPCProximityFrom(_, _, _, _, _)
checkNPCProximityFrom(i, flags, config, R, pl) ==
    IF i >= Len(config.entities) THEN [flags |-> flags, dispatch |-> NoIndex]
    ELSE IF config.entities[i + 1].type # "npc" \/ ~MapHas(R.npcs, i)
         THEN checkNPCProximityFrom(i + 1, flags, config, R, pl)
    ELSE LET inRange == InRange(pl, R, R.npcs[i], INTERACTION_RADIUS)
             wasTriggered == i \in flags
         IN IF inRange /\ ~wasTriggered
            THEN [flags |-> flags \cup {i}, dispatch |-> i]
            ELSE IF ~inRange /\ wasTriggered
                 THEN checkNPCProximityFrom(i + 1, flags \ {i}, config, R, pl)
                 ELSE checkNPCProximityFrom(i + 1, flags, config, R, pl)

\* checkNPCProximity without its isDialoguePlaying() guard
checkNPCProximityUnguarded(flags, config, R, pl, d) ==
    IF ~pl.here
    THEN [flags |-> flags, dispatch |-> NoIndex]
    ELSE checkNPCProximityFrom(0, flags, config, R, pl)

\* Level.checkNPCProximity
checkNPCProximity(flags, config, R, pl, d) ==
    IF ~pl.here \/ isDialoguePlaying(d)
    THEN [flags |-> flags, dispatch |-> NoIndex]
    ELSE checkNPCProximityFrom(0, flags, config, R, pl)

\* Level.checkInteractionState
checkInteractionState(cur, d) ==
    IF cur # NoIndex /\ ~isDialoguePlaying(d) THEN NoIndex ELSE cur

\* Level.executeTriggerActions: its effect on the DialogueManager
RECURSIVE executeTriggerActions(_, _, _)
executeTriggerActions(d, actions, k) ==
    IF k > Len(actions) THEN d
    ELSE executeTriggerActions(
             IF actions[k].type = "playDialogue" THEN DMPlay(d, actions[k].value) ELSE d,
             actions, k + 1)

\* The loop of Level.processTriggers from the k-th trigger on; acc carries
\* the trigger states, the DialogueManager and the slots fired so far.
RECURSIVE processTriggersFrom(_, _, _, _, _)
processTriggersFrom(k, acc, config, R, pl) ==
    IF k > Len(config.triggers) THEN acc
    ELSE LET trigger == config.triggers[k]
             skip == \/ ~MapHas(acc.states, trigger)
                     \/ (trigger.once /\ acc.states[trigger])
                     \/ trigger.type # "proximity"
                     \/ ~MapHas(R.npcNameIndex, trigger.target)
         IN IF skip THEN processTriggersFrom(k + 1, acc, config, R, pl)
            ELSE IF InRange(pl, R, R.npcNameIndex[trigger.target], trigger.radius)
                 THEN processTriggersFrom(k + 1,
                          [states |-> [acc.states EXCEPT ![trigger] = TRUE],
                           dm |-> executeTriggerActions(acc.dm, trigger.actions, 1),
                           fired |-> acc.fired \cup {trigger.slot}],
                          config, R, pl)
                 ELSE processTriggersFrom(k + 1, acc, config, R, pl)

\* processTriggers without its `state.triggered = true`
processTriggersUnmarked(states, d, config, R, pl) ==
    IF ~pl.here THEN [states |-> states, dm |-> d, fired |-> {}]
    ELSE [processTriggersFrom(1, [states |-> states, dm |-> d, fired |-> {}], config, R, pl)
             EXCEPT !.states = states]

\* Level.processTriggers
processTriggers(states, d, config, R, pl) ==
    IF ~pl.here THEN [states |-> states, dm |-> d, fired |-> {}]
    ELSE processTriggersFrom(1, [states |-> states, dm |-> d, fired |-> {}], config, R, pl)

\* Level.onUpdate (the effects of processEffects are not part of the model)
onUpdate(pl) ==
    LET prox == IF ~isEditorMode
                THEN checkNPCProximity(npcDialogueTriggered, levelConfig, Regs, pl, dm)
                ELSE [flags |-> npcDialogueTriggered, dispatch |-> NoIndex]
        cur1 == IF prox.dispatch # NoIndex THEN prox.dispatch ELSE currentInteractingNPC
        dm1 == IF prox.dispatch # NoIndex
               THEN handleNPCInteraction(dm, prox.dispatch, levelConfig.entities[prox.dispatch + 1])
               ELSE dm
        cur2 == IF ~isEditorMode THEN checkInteractionState(cur1, dm1) ELSE cur1
        trig == processTriggers(triggerStates, dm1, levelConfig, Regs, pl)
    IN [flags |-> prox.flags, dispatch |-> prox.dispatch, cur |-> cur2,
        states |-> trig.states, dm |-> trig.dm, fired |-> trig.fired]

\* the NPC registered at index i is within the interaction radius of the player
NearNPC(i) ==
    /\ player.here
    /\ MapHas(npcs, i)
    /\ Distance(player.pos, objs[npcs[i]].position) < INTERACTION_RADIUS

Bump(n) == Min(2, n + 1)

\* BaseLevel.update up to the call of onUpdate: Player.update turns the
\* input into a velocity, Player.stopMovement zeroes it while a dialogue plays
update(input) ==
    IF ~player.here THEN player
    ELSE IF isDialoguePlaying(dm) THEN [player EXCEPT !.vel = 0]
    ELSE [player EXCEPT !.vel = input]

\* BaseLevel.render: the physics step of scene.render() moves the player by
\* its velocity (the walkable ground is 0..MaxPos)
render(pl) ==
    IF pl.here /\ pl.pos + pl.vel \in 0..MaxPos
    THEN [pl EXCEPT !.pos = @ + pl.vel]
    ELSE pl

\* the slots of the declared triggers whose target resolves to a live NPC
\* within the trigger's radius of the player
InRadius ==
    {k \in 1..Len(levelConfig.triggers) :
        /\ player.here
        /\ MapHas(npcNameIndex, levelConfig.triggers[k].target)
        /\ InRange(player, Regs, npcNameIndex[levelConfig.triggers[k].target],
                   levelConfig.triggers[k].radius)}

\* One pass of the render loop: levelManager.update() then level.render().
Tick ==
    /\ loadPc # "new"
    /\ ~levelDisposed
    /\ \E input \in {-1, 0, 1} :
         LET pl == update(input)
             r == onUpdate(pl)
         IN /\ player' = render(pl)
            /\ npcDialogueTriggered' = r.flags
            /\ currentInteractingNPC' = r.cur
            /\ triggerStates' = r.states
            /\ dm' = r.dm
            /\ tickLog' = [ran |-> TRUE, editor |-> isEditorMode,
                           activeAtStart |-> isDialoguePlaying(dm),
                           checked |-> ~isEditorMode /\ player.here /\ ~isDialoguePlaying(dm),
                           dispatch |-> r.dispatch,
                           flagsBefore |-> npcDialogueTriggered,
                           visitBefore |-> inVisit,
                           near |-> {i \in DOMAIN npcs : NearNPC(i)},
                           inRadius |-> InRadius,
                           fired |-> r.fired,
                           statesBefore |-> triggerStates]
            /\ fireCount' = [s \in DOMAIN fireCount |->
                               IF s \in r.fired THEN Bump(fireCount[s]) ELSE fireCount[s]]
            /\ inVisit' = IF isEditorMode \/ ~player.here \/ isDialoguePlaying(dm) THEN inVisit
                          ELSE {i \in inVisit : NearNPC(i)}
                               \cup (IF r.dispatch # NoIndex THEN {r.dispatch} ELSE {})
    /\ UNCHANGED << levelConfig, registries, objs, isEditorMode, loadPc, loadIdx, loadEnts,
                    pending, levelDisposed, loadLog, liveCalls >>
    /\ UNCHANGED others

\* DialogueManager.end, reached when the user has stepped through the last
\* line: the script's onComplete callback clears currentInteractingNPC.
DialogueEnd ==
    /\ isDialoguePlaying(dm)
    /\ dm' = DMStop(dm)
    /\ currentInteractingNPC' = IF dm.isScriptMode THEN NoIndex ELSE currentInteractingNPC
    /\ tickLog' = NoTick
    /\ UNCHANGED << levelConfig, registries, objs, triggerStates, npcDialogueTriggered,
                    isEditorMode, player, loadPc, loadIdx, loadEnts, pending,
                    levelDisposed, fireCount, inVisit, loadLog, liveCalls >>
    /\ UNCHANGED others

\* ------------------------------------------------------------------------
\* Live entity mutation API
\* ------------------------------------------------------------------------
NoSpawn == MkSpawn("none", 0, "", "", "", "none")

\* a live-API call waiting for its asset load, with the locals it holds;
\* rotation and scaling are those swapPropModel cloned
MkPending(op, index, spawn, position) ==
    [op |-> op, index |-> index, spawn |-> spawn, position |-> position,
     rotation |-> NoIndex, scaling |-> NoIndex, below |-> 0]

\* the caller may use the live API: load() has completed, dispose() was not called
Live == loadPc = "done" /\ ~levelDisposed

\* what a live-API call leaves alone
LiveKeep ==
    /\ tickLog' = NoTick
    /\ UNCHANGED << levelConfig, triggerStates, npcDialogueTriggered, isEditorMode,
                    currentInteractingNPC, player, dm, loadPc, loadIdx, loadEnts,
                    levelDisposed, fireCount, inVisit, loadLog >>
    /\ UNCHANGED << beside, audio, lm, rest >>

\* a live-API call that is not a model swap
LiveFrame == LiveKeep /\ sw' = NoSwap

\* the asset load of p settles: the swap on record ends if it is the call
\* that was waiting
Ended(p, outcome) ==
    sw' = IF sw.op = p.op /\ sw.index = p.index
          THEN [sw EXCEPT !.settled = TRUE, !.outcome = outcome]
          ELSE sw

\* a live-API call is made
Called == liveCalls < MaxLiveCalls /\ liveCalls' = liveCalls + 1

\* Level.addEntityLive(index, spawn): a portal is spawned before the call
\* yields; an NPC or a prop waits for its asset load.
AddEntityLive(index, spawn) ==
    /\ Live
    /\ Called
    /\ IF spawn.type = "portal"
       THEN /\ Cardinality(DOMAIN objs) < MaxObjs
            /\ SetRegs(spawnEntityAtIndex(Regs, index, spawn, "ok"))
            /\ UNCHANGED pending
       ELSE /\ Cardinality(pending) < MaxPending
            /\ MkPending("add", index, spawn, spawn.position) \notin pending
            /\ pending' = pending \cup {MkPending("add", index, spawn, spawn.position)}
            /\ UNCHANGED << registries, objs >>
    /\ LiveFrame

\* the asset load of an addEntityLive settles
AddEntityLiveSettle(p, outcome) ==
    /\ p \in pending
    /\ UNCHANGED liveCalls
    /\ p.op = "add"
    /\ Cardinality(DOMAIN objs) < MaxObjs
    /\ SetRegs(spawnEntityAtIndex(Regs, p.index, p.spawn, outcome))
    /\ pending' = pending \ {p}
    /\ LiveKeep
    /\ UNCHANGED sw

\* Level.reindexEntities, inner function reindex: the map with every key
\* above removedIndex lowered by one
reindex(map, removedIndex) ==
    LET newIdx(idx) == IF idx > removedIndex THEN idx - 1 ELSE idx
    IN [k \in {newIdx(idx) : idx \in DOMAIN map} |->
          map[CHOOSE idx \in DOMAIN map : newIdx(idx) = k]]

\* objects of the heap get the index of their registry key written into
\* their metadata
WriteIndices(os, map) ==
    [o \in DOMAIN os |->
       IF \E k \in DOMAIN map : map[k] = o /\ isEntityMetadata(os[o].meta)
       THEN [os[o] EXCEPT !.meta.index = CHOOSE k \in DOMAIN map : map[k] = o]
       ELSE os[o]]

\* the mesh index rebuilt from the three registries: props are written
\* last, NPCs first
RebuildMeshIndex(n, po, pr) ==
    [k \in (DOMAIN n) \cup (DOMAIN po) \cup (DOMAIN pr) |->
       IF k \in DOMAIN pr THEN pr[k] ELSE IF k \in DOMAIN po THEN po[k] ELSE n[k]]

\* Each registry as it is when `reindex(this.x)` reads it: the statement
\* before it has just cleared the map.
ClearedBeforeReindex(map) == EmptyMap

\* Level.reindexEntities
reindexEntities(R, removedIndex) ==
    LET n == reindex(ClearedBeforeReindex(R.npcs), removedIndex)
        po == reindex(ClearedBeforeReindex(R.portals), removedIndex)
        pr == reindex(ClearedBeforeReindex(R.props), removedIndex)
    IN [R EXCEPT !.npcs = n,
                 !.portals = po,
                 !.props = pr,
                 !.objs = WriteIndices(WriteIndices(WriteIndices(R.objs, n), po), pr),
                 !.entityMeshIndex = RebuildMeshIndex(n, po, pr)]

\* reindexEntities of src/unnamed/part_008 without the writes of
\* metadata.index
reindexEntitiesKeepingMeta(R, removedIndex) ==
    LET n == reindex(R.npcs, removedIndex)
        po == reindex(R.portals, removedIndex)
        pr == reindex(R.props, removedIndex)
    IN [R EXCEPT !.npcs = n,
                 !.portals = po,
                 !.props = pr,
                 !.entityMeshIndex = RebuildMeshIndex(n, po, pr)]

\* Level.reindexEntities in the revision of src/unnamed/part_008: new maps
\* are filled from the registries, which are replaced at the end
reindexEntitiesRebuilding(R, removedIndex) ==
    LET n == reindex(R.npcs, removedIndex)
        po == reindex(R.portals, removedIndex)
        pr == reindex(R.props, removedIndex)
    IN [R EXCEPT !.npcs = n,
                 !.portals = po,
                 !.props = pr,
                 !.objs = WriteIndices(WriteIndices(WriteIndices(R.objs, n), po), pr),
                 !.entityMeshIndex = RebuildMeshIndex(n, po, pr)]

\* Level.handleEditorClick of part_008 with a pick of object o: the index it
\* hands to onObjectSelected
clickedIndex(os, o) == IF isEntityMetadata(os[o].meta) THEN os[o].meta.index ELSE NoIndex

\* Level.removeEntityLive up to the call of reindexEntities
removeEntity(R, index) ==
    LET hasNpc == MapHas(R.npcs, index)
        name == IF hasNpc THEN R.objs[R.npcs[index]].meta.id ELSE ""
        gone == (IF hasNpc THEN {R.npcs[index]} ELSE {})
                \cup (IF MapHas(R.portals, index) THEN {R.portals[index]} ELSE {})
                \cup (IF MapHas(R.props, index) THEN {R.props[index]} ELSE {})
    IN [R EXCEPT !.npcNameIndex = IF hasNpc /\ name # "" THEN MapDelete(@, name) ELSE @,
                 !.objs = DisposeAll(@, gone),
                 !.npcs = MapDelete(@, index),
                 !.portals = MapDelete(@, index),
                 !.props = MapDelete(@, index),
                 !.entityMeshIndex = MapDelete(@, index)]

\* Level.removeEntityLive(index)
RemoveEntityLive(index) ==
    /\ Live
    /\ Called
    /\ SetRegs(reindexEntities(removeEntity(Regs, index), index))
    /\ UNCHANGED pending
    /\ LiveFrame

\* Level.swapNPCModel: the old NPC is disposed and deleted from the registry
swapNPCDisposeOld(R, index) ==
    IF MapHas(R.npcs, index)
    THEN [R EXCEPT !.objs = DisposeObj(@, R.npcs[index]),
                   !.npcs = MapDelete(@, index)]
    ELSE R

\* Level.swapNPCModel(index, assetPath) up to the await of the factory
SwapNPCModel(index) ==
    /\ Live
    /\ Called
    /\ Cardinality(pending) < MaxPending
    /\ LET spawn == IF index < Len(levelConfig.entities)
                    THEN levelConfig.entities[index + 1] ELSE NoSpawn
           p == MkPending("swapNPC", index, spawn, spawn.position)
       IN /\ p \notin pending
          /\ pending' = pending \cup {p}
    /\ SetRegs(swapNPCDisposeOld(Regs, index))
    /\ sw' = IF MapHas(npcs, index)
             THEN [NoSwap EXCEPT !.op = "swapNPC", !.index = index, !.had = TRUE,
                                 !.name = objs[npcs[index]].meta.id,
                                 !.position = objs[npcs[index]].position,
                                 !.rotation = objs[npcs[index]].rotation,
                                 !.scaling = objs[npcs[index]].scaling,
                                 !.disposals = (IF objs[npcs[index]].disposed THEN 2 ELSE 1)]
             ELSE [NoSwap EXCEPT !.op = "swapNPC", !.index = index]
    /\ LiveKeep

\* name under which swapNPCModel registers the replacement
SwapNPCName(spawn, index) ==
    IF spawn.name # "" THEN spawn.name ELSE "npc_" \o ToString(index)

\* the rest of swapNPCModel once the factory has resolved
swapNPCRegister(R, p) ==
    LET o == NewObj(R.objs)
        name == SwapNPCName(p.spawn, p.index)
    IN [R EXCEPT !.objs = MapSet(R.objs, o, MkObj("npc", p.position,
                                              setEntityMetadata(p.index, "npc", name))),
                 !.npcs = MapSet(R.npcs, p.index, o),
                 !.npcNameIndex = MapSet(R.npcNameIndex, name, o),
                 !.entityMeshIndex = MapSet(R.entityMeshIndex, p.index, o)]

\* the asset load of a swapNPCModel settles; a failed load rejects the call
SwapNPCModelSettle(p, outcome) ==
    /\ p \in pending
    /\ UNCHANGED liveCalls
    /\ p.op = "swapNPC"
    /\ Cardinality(DOMAIN objs) < MaxObjs
    /\ SetRegs(IF outcome = "ok" THEN swapNPCRegister(Regs, p) ELSE Regs)
    /\ pending' = pending \ {p}
    /\ Ended(p, outcome)
    /\ LiveKeep

\* Level.swapPropModel: the old prop is disposed and deleted from the
\* registry and from the mesh index
swapPropDisposeOld(R, index) ==
    IF MapHas(R.props, index)
    THEN [R EXCEPT !.objs = DisposeObj(@, R.props[index]),
                   !.props = MapDelete(@, index),
                   !.entityMeshIndex = MapDelete(@, index)]
    ELSE R

\* Level.swapPropModel(index, assetPath) up to the await of loadMesh;
\* position NoIndex stands for "no old prop, no transform to restore"
SwapPropModel(index) ==
    /\ Live
    /\ Called
    /\ Cardinality(pending) < MaxPending
    /\ LET p == IF MapHas(props, index)
                THEN [MkPending("swapProp", index, NoSpawn, objs[props[index]].position)
                         EXCEPT !.rotation = objs[props[index]].rotation,
                                !.scaling = objs[props[index]].scaling]
                ELSE MkPending("swapProp", index, NoSpawn, NoIndex)
       IN /\ p \notin pending
          /\ pending' = pending \cup {p}
    /\ SetRegs(swapPropDisposeOld(Regs, index))
    /\ sw' = IF MapHas(props, index)
             THEN [NoSwap EXCEPT !.op = "swapProp", !.index = index, !.had = TRUE,
                                 !.position = objs[props[index]].position,
                                 !.rotation = objs[props[index]].rotation,
                                 !.scaling = objs[props[index]].scaling,
                                 !.disposals = (IF objs[props[index]].disposed THEN 2 ELSE 1)]
             ELSE [NoSwap EXCEPT !.op = "swapProp", !.index = index]
    /\ LiveKeep

\* the rest of swapPropModel once loadMesh has resolved with a root mesh
swapPropRegister(R, p) ==
    LET o == NewObj(R.objs)
        root == MkObj("prop", 0, setEntityMetadata(p.index, "prop", ""))
    IN [R EXCEPT !.objs = MapSet(R.objs, o,
                              [root EXCEPT !.position = IF p.position = NoIndex THEN @ ELSE p.position,
                                           !.rotation = IF p.rotation = NoIndex THEN @ ELSE p.rotation,
                                           !.scaling = IF p.scaling = NoIndex THEN @ ELSE p.scaling]),
                 !.props = MapSet(R.props, p.index, o),
                 !.entityMeshIndex = MapSet(R.entityMeshIndex, p.index, o)]

\* the asset load of a swapPropModel settles
SwapPropModelSettle(p, outcome) ==
    /\ p \in pending
    /\ UNCHANGED liveCalls
    /\ p.op = "swapProp"
    /\ Cardinality(DOMAIN objs) < MaxObjs
    /\ SetRegs(IF outcome = "ok" THEN swapPropRegister(Regs, p) ELSE Regs)
    /\ pending' = pending \ {p}
    /\ Ended(p, outcome)
    /\ LiveKeep

\* transforms the editor sends: a position, and a rotation and a scale that
\* may be left out (NoIndex)
EditPositions == {4}

EditRotations == {NoIndex, 2}

EditScales == {NoIndex, 3}

\* Level.updateEntityTransform: the heap afterwards
updateEntityTransform(R, index, position, rotation, scale) ==
    IF ~MapHas(R.entityMeshIndex, index) THEN R
    ELSE [R EXCEPT !.objs[R.entityMeshIndex[index]] =
             [@ EXCEPT !.position = position,
                       !.rotation = IF rotation # NoIndex THEN rotation ELSE @,
                       !.scaling = IF scale # NoIndex THEN scale ELSE @]]

\* Level.updateEntityTransform(index, position, rotation?, scale?)
UpdateEntityTransform(index, position, rotation, scale) ==
    /\ Live
    /\ Called
    /\ SetRegs(updateEntityTransform(Regs, index, position, rotation, scale))
    /\ UNCHANGED pending
    /\ LiveFrame

\* ------------------------------------------------------------------------
\* Hot update, editor mode, dispose
\* ------------------------------------------------------------------------
\* Level.hotUpdate(config): the dialogues registered are those of the
\* document being replaced
HotUpdate(config) ==
    /\ loadPc # "new"
    /\ ~levelDisposed
    /\ audio' = hotUpdateMusic(audio, config)
    /\ dm' = registerDialogues(dm, levelConfig)
    /\ levelConfig' = config
    /\ tickLog' = NoTick
    /\ UNCHANGED << registries, objs, triggerStates, npcDialogueTriggered, isEditorMode,
                    currentInteractingNPC, player, loadPc, loadIdx, loadEnts, pending,
                    levelDisposed, fireCount, inVisit, loadLog, liveCalls >>
    /\ UNCHANGED << beside, sw, lm, rest >>

\* Level.setEditorMode(enabled)
SetEditorMode(enabled) ==
    /\ loadPc # "new"
    /\ ~levelDisposed
    /\ enabled # isEditorMode
    /\ isEditorMode' = enabled
    /\ tickLog' = NoTick
    /\ UNCHANGED << levelConfig, registries, objs, triggerStates, npcDialogueTriggered,
                    currentInteractingNPC, player, dm, loadPc, loadIdx, loadEnts, pending,
                    levelDisposed, fireCount, inVisit, loadLog, liveCalls >>
    /\ UNCHANGED others

\* Level.enableEditorMode(onSelect, onChange)
EnableEditorMode ==
    /\ Live
    /\ ~isEditorMode \/ isDialoguePlaying(dm)
    /\ isEditorMode' = TRUE
    /\ dm' = DMStop(dm)
    /\ tickLog' = NoTick
    /\ UNCHANGED << levelConfig, registries, objs, triggerStates, npcDialogueTriggered,
                    currentInteractingNPC, player, loadPc, loadIdx, loadEnts, pending,
                    levelDisposed, fireCount, inVisit, loadLog, liveCalls >>
    /\ UNCHANGED others

\* LevelManager.cleanup: DialogueManager.stop(), then Level.dispose()
Dispose ==
    /\ loadPc # "new"
    /\ ~levelDisposed
    /\ SetRegs(disposeAllEntities(Regs))
    /\ triggerStates' = EmptyMap
    /\ npcDialogueTriggered' = {}
    /\ dm' = DMStop(dm)
    /\ levelDisposed' = TRUE
    /\ tickLog' = NoTick
    /\ UNCHANGED << levelConfig, isEditorMode, currentInteractingNPC, player, loadPc,
                    loadIdx, loadEnts, pending, fireCount, inVisit, loadLog, liveCalls >>
    /\ UNCHANGED others

\* ------------------------------------------------------------------------
\* Specifications
\* ------------------------------------------------------------------------
Load == LoadBegin \/ LoadPlayer \/ LoadSpawn \/ LoadFinish

LiveCall ==
    \/ \E index \in 0..MaxIndex, spawn \in LiveSpawns : AddEntityLive(index, spawn)
    \/ \E index \in 0..MaxIndex : RemoveEntityLive(index)
    \/ \E index \in 0..MaxIndex : SwapNPCModel(index)
    \/ \E index \in 0..MaxIndex : SwapPropModel(index)

Settle ==
    \/ \E p \in pending, outcome \in Outcomes : AddEntityLiveSettle(p, outcome)
    \/ \E p \in pending, outcome \in Outcomes : SwapNPCModelSettle(p, outcome)
    \/ \E p \in pending, outcome \in Outcomes : SwapPropModelSettle(p, outcome)

\* The editor's view of the runtime: a level is loaded and then edited live.
InitLive == \E ents \in EntityLists : InitWith(MkConfig(ents, 0, {"intro"}))

NextLive ==
    \/ Load
    \/ LiveCall
    \/ Settle
    \/ Dispose

SpecLive == InitLive /\ [][NextLive]_vars

\* Models are swapped and entities moved on a loaded level.
SwapCall ==
    \/ \E index \in 0..MaxIndex : SwapNPCModel(index)
    \/ \E index \in 0..MaxIndex : SwapPropModel(index)

SwapSettle ==
    \/ \E p \in pending, outcome \in Outcomes : SwapNPCModelSettle(p, outcome)
    \/ \E p \in pending, outcome \in Outcomes : SwapPropModelSettle(p, outcome)

NextSwap ==
    \/ Load
    \/ \E index \in 0..MaxIndex, position \in EditPositions, rotation \in EditRotations,
          scale \in EditScales : UpdateEntityTransform(index, position, rotation, scale)
    \/ SwapCall
    \/ SwapSettle

SpecSwap == InitLive /\ [][NextSwap]_vars

\* Music: a level with some music key is loaded and hot-updated with
\* documents that differ in music and in nothing structural.
MusicKeys == {NoMusic, "", "level_1", "level_2", "custom.mp3"}

Remixed(config) == { [c EXCEPT !.music = key] : c \in Redeclared(config), key \in MusicKeys }

InitMusic ==
    \E key \in MusicKeys : InitWith([MkConfig(<< NpcGuard >>, 0, {"intro"}) EXCEPT !.music = key])

NextMusic ==
    \/ Load
    \/ \E config \in Remixed(levelConfig) : HotUpdate(config)

SpecMusic == InitMusic /\ [][NextMusic]_vars

\* ------------------------------------------------------------------------
\* LevelManager (src/unnamed/part_005, src/src/managers/LevelManager.ts) and
\* the stages of BaseLevel.load
\* ------------------------------------------------------------------------
\* LevelManager.load calls made (lm.loads counts them)
MaxLoads == 2

\* level ids with a registered factory or a stored document, and all ids
KnownIds == {"a", "b"}

LevelIds == KnownIds \cup {"x"}

EffectTypes == {"spotlightOverride", "flicker", "heartbeatVignette", "cameraShake"}

\* what a level document declares: its effects and whether it has a pipeline
MkLevelDoc(effects, pipeline) == [effects |-> effects, pipeline |-> pipeline]

LevelDocs ==
    { MkLevelDoc({}, FALSE), MkLevelDoc({"spotlightOverride"}, FALSE),
      MkLevelDoc({"flicker"}, FALSE), MkLevelDoc({"heartbeatVignette"}, FALSE),
      MkLevelDoc({"heartbeatVignette"}, TRUE), MkLevelDoc({"cameraShake"}, FALSE),
      MkLevelDoc(EffectTypes, TRUE) }

\* a Level just constructed and its load() started: load() has created the
\* scene and awaits the physics plugin ("physics"); then it creates camera,
\* lights, pipeline and awaits the player mesh ("player"); then it creates
\* the player and awaits onLoad ("onLoad"); then it is "loaded"
\* History: starts counts the start() calls, early tells that one of them
\* came before load() had resolved, call is the number of the
\* LevelManager.load call that made the level and over the level whose
\* load() was pending when that call was made
NewLevel(id, doc) ==
    [id |-> id, doc |-> doc, stage |-> "physics", disposals |-> 0, started |-> FALSE,
     starts |-> 0, early |-> FALSE, call |-> 0, over |-> NoLevel]

NextStage(stage) ==
    CASE stage = "physics" -> "player"
      [] stage = "player" -> "onLoad"
      [] OTHER -> "loaded"

\* setupCamera and setupLighting have run: this.camera and this.flashlight
\* are assigned
SetUp(level) == level.stage # "physics"

\* Level.applyEffect raises a TypeError: it reads a property of undefined.
\* "flicker" is a flicker whose target is the flashlight; the vignette and
\* the spotlight override are guarded by this.pipeline and this.player
applyEffectThrows(level, effect) ==
    CASE effect = "flicker" -> ~SetUp(level)
      [] effect = "cameraShake" -> ~SetUp(level)
      [] OTHER -> FALSE

\* Level.processEffects raises an error
processEffectsThrows(level) == \E effect \in level.doc.effects : applyEffectThrows(level, effect)

\* LevelManager.cleanup (part_005) and the first lines of load
\* (src/src/managers): the current level is disposed; part_005 forgets it
lmCleanup(m) ==
    IF m.currentLevel = NoLevel THEN m
    ELSE [m EXCEPT !.levels[m.currentLevel].disposals = @ + 1,
                   !.currentLevel = IF m.revision = "store" THEN NoLevel ELSE @]

\* load without the cleanup at its start
lmLoadKeeping(m, id, doc) ==
    IF id \in KnownIds
    THEN [m EXCEPT !.levels = Append(@, NewLevel(id, doc)),
                   !.currentLevel = Len(m.levels) + 1,
                   !.currentLevelId = IF m.revision = "store" THEN id ELSE @,
                   !.error = "none"]
    ELSE [m EXCEPT !.error = "load"]

\* LevelManager.load(id) up to the await of the level's load(): an id
\* without factory or document makes it throw after the cleanup
lmLoad(m, id, doc) ==
    LET awaited == IF /\ m.currentLevel # NoLevel
                      /\ m.levels[m.currentLevel].stage \notin {"loaded", "rejected"}
                   THEN m.currentLevel ELSE NoLevel
        made == lmLoadKeeping(lmCleanup(m), id, doc)
    IN IF id \in KnownIds
       THEN [made EXCEPT !.loads = @ + 1,
                         !.levels[Len(made.levels)].call = m.loads + 1,
                         !.levels[Len(made.levels)].over = awaited]
       ELSE [made EXCEPT !.loads = @ + 1]

\* the rest of LevelManager.load once the level's load() has resolved:
\* this.currentLevel.start()
lmStart(m) ==
    IF m.currentLevel = NoLevel THEN [m EXCEPT !.error = "start"]
    ELSE [m EXCEPT !.levels[m.currentLevel].started = TRUE,
                   !.levels[m.currentLevel].starts = @ + 1,
                   !.levels[m.currentLevel].early = @ \/ m.levels[m.currentLevel].stage # "loaded",
                   !.error = "none"]

\* LevelManager.update: the tick of the current level, if there is one
lmUpdate(m) ==
    IF m.currentLevel = NoLevel THEN [m EXCEPT !.error = "none"]
    ELSE [m EXCEPT !.error = IF processEffectsThrows(m.levels[m.currentLevel])
                             THEN "update" ELSE "none"]

notLm == << levelVars, beside, sw, audio, rest >>

\* LevelManager.load(id); doc is the document the factory or the store has
\* for a known id
LmLoad(id, doc) ==
    /\ lm.loads < MaxLoads
    /\ lm' = lmLoad(lm, id, doc)
    /\ UNCHANGED notLm

\* an await of the load() of level k settles: it resolves, or, the scene
\* of the level having been disposed meanwhile, the step after it throws
\* and load() rejects
LmStage(k) ==
    /\ k \in 1..Len(lm.levels)
    /\ lm.levels[k].stage \notin {"loaded", "rejected"}
    /\ \E resolves \in (IF lm.levels[k].disposals > 0 THEN BOOLEAN ELSE {TRUE}) :
         LET m == [lm EXCEPT !.levels[k].stage = IF resolves THEN NextStage(@) ELSE "rejected"]
         IN lm' = IF m.levels[k].stage = "loaded" THEN lmStart(m)
                  ELSE IF resolves THEN [m EXCEPT !.error = "none"]
                  ELSE [m EXCEPT !.error = "load"]
    /\ UNCHANGED notLm

\* the render loop calls LevelManager.update
LmUpdate ==
    /\ lm' = lmUpdate(lm)
    /\ UNCHANGED notLm

InitManager ==
    /\ LevelInit(MkConfig(<< >>, 0, {}))
    /\ QuestIdle
    /\ NpcIdle
    /\ PortalIdle
    /\ EditorIdle
    /\ sw = NoSwap
    /\ audio = NoAudio
    /\ RestIdle
    /\ \E revision \in {"store", "factories"} : lm = MkLevelManager(revision)

NextManager ==
    \/ \E id \in LevelIds, doc \in LevelDocs : LmLoad(id, doc)
    \/ \E k \in 1..MaxLoads : LmStage(k)
    \/ LmUpdate

SpecManager == InitManager /\ [][NextManager]_vars

\* ------------------------------------------------------------------------
\* The live-editing API of the Level revision of src/unnamed/part_008
\* ------------------------------------------------------------------------
\* the asset loads in flight after removeEntityLive(index): each keeps the
\* index captured by its call; `below` counts the removals made below that
\* index since the call (history, read by no action)
Overtaken(P, index) == { IF p.index > index THEN [p EXCEPT !.below = @ + 1] ELSE p : p \in P }

\* Level.removeEntityLive(index) of part_008
RemoveEntityLiveRebuilding(index) ==
    /\ Live
    /\ Called
    /\ SetRegs(reindexEntitiesRebuilding(removeEntity(Regs, index), index))
    /\ pending' = Overtaken(pending, index)
    /\ LiveFrame

\* the spawns whose addEntityLive awaits an asset load
LateSpawns == {NpcGuard, PropBox}

LiveCallRebuilding ==
    \/ \E index \in 0..MaxIndex, spawn \in LateSpawns : AddEntityLive(index, spawn)
    \/ \E index \in 0..MaxIndex : RemoveEntityLiveRebuilding(index)
    \/ \E index \in 0..MaxIndex : SwapNPCModel(index)
    \/ \E index \in 0..MaxIndex : SwapPropModel(index)

NextRebuild ==
    \/ Load
    \/ LiveCallRebuilding
    \/ Settle

InitRebuild == InitWith(MkConfig(<< NpcGuard, NpcWife, PortalOut >>, 0, {"intro"}))

SpecRebuild == InitRebuild /\ [][NextRebuild]_vars

\* ------------------------------------------------------------------------
\* ScriptManager (src/src/game/managers/ScriptManager.ts)
\* ------------------------------------------------------------------------
\* largest variable value from which next() is still called
MaxGold == 4

\* stack frames left for next() when it is called
MaxFrames == 6

\* ScriptCondition; NoCond is `undefined`
NoCond == [key |-> "", val |-> 0, op |-> "none"]

Need(val, key) == [key |-> key, val |-> val, op |-> ">="]

MkOption(text, target, condition) == [text |-> text, target |-> target, condition |-> condition]

SayLine(text) == MkScriptLine("say", text, << >>, "", "", << >>)

ChoiceLine(options) == MkScriptLine("choice", "", options, "", "", << >>)

GotoLine(target) == MkScriptLine("goto", "", << >>, target, "", << >>)

ActionLine(command, args) == MkScriptLine("action", "", << >>, "", command, args)

\* a trimmed, non-empty, non-comment line of script source: `kind` is the
\* branch of the parser it takes, `arrows` the number of "->" in a choice
\* line, `line` what the branch makes of it
RawHeader(name) == [kind |-> "header", name |-> name, arrows |-> 0, line |-> NullLine]

RawOption(option, arrows) ==
    [kind |-> "option", name |-> "", arrows |-> arrows, line |-> ChoiceLine(<< option >>)]

RawLine(line) == [kind |-> "line", name |-> "", arrows |-> 0, line |-> line]

\* parseInt on the argument texts used below
Digits == << "0", "1", "2", "3" >>

ParseInt(text) ==
    IF \E i \in 1..Len(Digits) : Digits[i] = text
    THEN (CHOOSE i \in 1..Len(Digits) : Digits[i] = text) - 1
    ELSE NaN

\* parseInt(args[1]) || 1
Amount(args) ==
    LET parsed == IF Len(args) >= 2 THEN ParseInt(args[2]) ELSE NaN
    IN  IF parsed = NaN \/ parsed = 0 THEN 1 ELSE parsed

\* this.variables[key] || 0
VarOf(variables, key) == IF key \in DOMAIN variables THEN variables[key] ELSE 0

\* flush of the pending choice in load()
flushChoice(st) ==
    IF st.pending
    THEN [st EXCEPT !.lines = Append(@, ChoiceLine(st.options)), !.pending = FALSE,
                    !.options = << >>]
    ELSE st

flushBlock(st) ==
    [st EXCEPT !.blocks = IF Len(st.lines) > 0 \/ st.name = "START"
                          THEN MapSet(@, st.name, st.lines) ELSE @,
               !.lines = << >>]

\* one pass of the parser loop of load()
parseLine(st, raw) ==
    CASE raw.kind = "header" -> [flushBlock(flushChoice(st)) EXCEPT !.name = raw.name]
      [] raw.kind = "option" ->
            [st EXCEPT !.pending = TRUE,
                       !.options = IF raw.arrows = 1 THEN Append(@, raw.line.options[1]) ELSE @]
      [] OTHER -> [flushChoice(st) EXCEPT !.lines = Append(@, raw.line)]

RECURSIVE parseFrom(_, _, _)
parseFrom(source, i, st) ==
    IF i > Len(source) THEN flushBlock(flushChoice(st))
    ELSE parseFrom(source, i + 1, parseLine(st, source[i]))

scriptLoad(s, source) ==
    LET st0 == [blocks |-> EmptyMap, name |-> "START", lines |-> << >>, pending |-> FALSE,
                options |-> << >>]
    IN  [s EXCEPT !.blocks = parseFrom(source, 1, st0).blocks, !.currentBlock = "",
                  !.currentIndex = 0, !.active = FALSE]

scriptStart(s) == [s EXCEPT !.currentBlock = "START", !.currentIndex = 0, !.active = TRUE]

checkCondition(s, cond) ==
    IF cond = NoCond THEN TRUE
    ELSE CASE cond.op = ">=" -> VarOf(s.variables, cond.key) >= cond.val
           [] cond.op = "<=" -> VarOf(s.variables, cond.key) <= cond.val
           [] cond.op = "==" -> VarOf(s.variables, cond.key) = cond.val
           [] cond.op = ">" -> VarOf(s.variables, cond.key) > cond.val
           [] cond.op = "<" -> VarOf(s.variables, cond.key) < cond.val
           [] OTHER -> TRUE

validOptions(s, options) == SelectSeq(options, LAMBDA opt : checkCondition(s, opt.condition))

handleAction(s, cmd, args) ==
    LET varName == IF Len(args) >= 1 THEN args[1] ELSE "undefined"
        val == Amount(args)
        had == VarOf(s.variables, varName)
        now == CASE cmd = "set" -> val
                 [] cmd = "give" -> had + val
                 [] cmd = "take" -> IF had - val < 0 THEN 0 ELSE had - val
                 [] OTHER -> had
    IN  [s EXCEPT !.variables = IF cmd \in {"set", "give", "take"} THEN MapSet(@, varName, now)
                                ELSE @,
                  !.last.acts = Append(@, [command |-> cmd, args |-> args, name |-> varName,
                                           had |-> had, now |-> now])]

\* next(); every `return this.next()` takes a stack frame, and with none
\* left the call does not return (RangeError, or no end where the engine
\* reuses the frame)
RECURSIVE scriptNext(_, _)
scriptNext(s, fuel) ==
    IF ~s.active \/ s.currentBlock = "" THEN [s EXCEPT !.last.line = NullLine]
    ELSE IF ~MapHas(s.blocks, s.currentBlock)
            \/ s.currentIndex >= Len(s.blocks[s.currentBlock])
    THEN [s EXCEPT !.active = FALSE, !.last.line = NullLine]
    ELSE LET line == s.blocks[s.currentBlock][s.currentIndex + 1]
             s1 == [s EXCEPT !.currentIndex = @ + 1]
         IN  CASE line.type = "goto" ->
                    IF line.target = "END"
                    THEN [s1 EXCEPT !.active = FALSE, !.last.line = NullLine]
                    ELSE IF fuel = 0
                    THEN [s1 EXCEPT !.currentBlock = line.target, !.currentIndex = 0,
                                    !.last.threw = TRUE]
                    ELSE scriptNext([s1 EXCEPT !.currentBlock = line.target,
                                               !.currentIndex = 0], fuel - 1)
               [] line.type = "action" ->
                    IF fuel = 0
                    THEN [handleAction(s1, line.command, line.args) EXCEPT !.last.threw = TRUE]
                    ELSE scriptNext(handleAction(s1, line.command, line.args), fuel - 1)
               [] line.type = "choice" ->
                    [s1 EXCEPT !.last.line = [line EXCEPT !.options = validOptions(s1, @)]]
               [] OTHER -> [s1 EXCEPT !.last.line = line]

\* the line next() returned
Returns(s) == s.last.line

Calling(s, call) == [s EXCEPT !.last = [NoLast EXCEPT !.call = call]]

jumpTo(s, target) ==
    IF target = "END" THEN [s EXCEPT !.active = FALSE]
    ELSE [s EXCEPT !.currentBlock = target, !.currentIndex = 0]

\* script sources
SrcShop ==
    << RawLine(SayLine("welcome")),
       RawLine(ActionLine("give", << "gold", "2" >>)),
       RawOption(MkOption("buy", "BUY", Need(2, "gold")), 1),
       RawOption(MkOption("vault", "RICH", Need(3, "gold")), 1),
       RawOption(MkOption("leave", "END", NoCond), 1),
       RawHeader("BUY"),
       RawLine(ActionLine("take", << "gold", "3" >>)),
       RawLine(SayLine("sold")),
       RawLine(GotoLine("START")),
       RawHeader("RICH"),
       RawLine(SayLine("vault")) >>

SrcGotoCycle == << RawLine(GotoLine("A")), RawHeader("A"), RawLine(GotoLine("START")) >>

SrcNowhere == << RawLine(SayLine("bye")), RawLine(GotoLine("NOWHERE")) >>

SrcGate ==
    << RawOption(MkOption("enter", "IN", Need(1, "key")), 1),
       RawOption(MkOption("a -> b", "IN", NoCond), 2),
       RawLine(SayLine("locked")),
       RawLine(ActionLine("set", << "key" >>)),
       RawHeader("EMPTY"),
       RawHeader("IN"),
       RawLine(GotoLine("END")) >>

SrcAction(command, args) == << RawLine(ActionLine(command, args)), RawLine(SayLine("done")) >>

ActionArgs ==
    {<< >>, << "gold" >>, << "gold", "0" >>, << "gold", "1" >>, << "gold", "2" >>,
     << "gold", "x" >>}

Sources ==
    {SrcShop, SrcGotoCycle, SrcNowhere, SrcGate, << >>}
        \cup {SrcAction(command, args) : command \in {"set", "give", "take", "drop"},
                                         args \in ActionArgs}

JumpTargets == {"END", "BUY", "NOWHERE", "START"}

notScript == << levelVars, beside, sw, audio, lm, talk, store >>

ScriptLoad(source) ==
    /\ scr' = scriptLoad(Calling(scr, "load"), source)
    /\ UNCHANGED notScript

ScriptStart ==
    /\ scr' = scriptStart(Calling(scr, "start"))
    /\ UNCHANGED notScript

ScriptNext ==
    /\ ~scr.last.threw
    /\ \A key \in DOMAIN scr.variables : scr.variables[key] < MaxGold
    /\ scr' = scriptNext(Calling(scr, "next"), MaxFrames)
    /\ UNCHANGED notScript

ScriptJumpTo(target) ==
    /\ ~scr.last.threw
    /\ scr' = jumpTo(Calling(scr, "jumpTo"), target)
    /\ UNCHANGED notScript

InitScript ==
    /\ LevelInit(MkConfig(<< >>, 0, {}))
    /\ QuestIdle
    /\ NpcIdle
    /\ PortalIdle
    /\ EditorIdle
    /\ LaterIdle

NextScript ==
    \/ \E source \in Sources : ScriptLoad(source)
    \/ ScriptStart
    \/ ScriptNext
    \/ \E target \in JumpTargets : ScriptJumpTo(target)

SpecScript == InitScript /\ [][NextScript]_vars

\* ------------------------------------------------------------------------
\* DialogueManager (src/unnamed/part_011) with the ScriptManager it drives
\* ------------------------------------------------------------------------
\* a DialogueChoice
MkChoice(text, value) == [text |-> text, value |-> value]

\* a registered Dialogue; onChoice is the callback per chosen value, the
\* empty sequence when the dialogue has no onChoice
MkTalk(id, lines, onChoice, onComplete) ==
    [id |-> id, lines |-> lines, onChoice |-> onChoice, onComplete |-> onComplete]

\* the dialogues registered with the manager
Talks ==
    [intro |-> MkTalk("intro", << MkLine("a", << >>), MkLine("b", << >>) >>, << >>,
                      MkCallback("play", "menu")),
     menu |-> MkTalk("menu",
                     << MkLine("q", << MkChoice("other", 0), MkChoice("on", 1),
                                       MkChoice("quit", 2), MkChoice("again", 3) >>),
                        MkLine("bye", << >>) >>,
                     << MkCallback("play", "intro"), MkCallback("nothing", ""),
                        MkCallback("stop", ""), MkCallback("play", "menu") >>,
                     MkCallback("script", "nowhere")),
     ask |-> MkTalk("ask", << MkLine("sure", << MkChoice("yes", 0) >>) >>, << >>, NoCallback),
     offer |-> MkTalk("offer", << MkLine("job", << MkChoice("take", 0) >>) >>,
                      << MkCallback("script", "shop") >>, NoCallback),
     empty |-> MkTalk("empty", << >>, << >>, MkCallback("throw", ""))]

\* the scripts a caller or a callback starts
TalkScripts == [shop |-> SrcShop, gate |-> SrcGate, nowhere |-> SrcNowhere, none |-> << >>]

\* the onComplete given to startScript
ScriptCallbacks == {NoCallback, MkCallback("play", "intro"), MkCallback("play", "empty")}

\* the manager together with the ScriptManager singleton
World(t, s) == [t |-> t, s |-> s]

\* F applied to v, with v evaluated once
Bind(v, F(_)) == CHOOSE r \in {F(x) : x \in {v}} : TRUE

talkCleanupKeepingListener(w) == [w EXCEPT !.t.rafId = FALSE, !.t.choices = << >>]

talkCleanup(w) == [w EXCEPT !.t.rafId = FALSE, !.t.inputListener = FALSE, !.t.choices = << >>]

\* the assignments stop() and end() make after cleanup()
clearState(w) ==
    [w EXCEPT !.t.active = FALSE, !.t.current = "", !.t.lineIndex = 0, !.t.isTyping = FALSE,
              !.t.waitingForInput = FALSE, !.t.isScriptMode = FALSE,
              !.t.currentLine = NullTalkLine, !.t.currentChoiceTargets = << >>,
              !.t.scriptOnComplete = NoCallback, !.t.latest = "", !.t.lineOf = ""]

\* every field is as constructed
IsClear(t) ==
    /\ ~t.active /\ t.current = "" /\ t.lineIndex = 0 /\ ~t.isTyping /\ ~t.waitingForInput
    /\ ~t.isScriptMode /\ t.currentLine = NullTalkLine /\ t.currentChoiceTargets = << >>
    /\ t.scriptOnComplete = NoCallback /\ ~t.rafId /\ ~t.inputListener /\ t.choices = << >>

talkShow(w) == [w EXCEPT !.t.hidden = FALSE]

talkHide(w) == [w EXCEPT !.t.hidden = TRUE]

talkStop(w) == talkHide(clearState(talkCleanup(w)))

talkTypeText(w, line, from) ==
    [w EXCEPT !.t.currentLine = line, !.t.isTyping = TRUE, !.t.waitingForInput = FALSE,
              !.t.choices = << >>, !.t.inputListener = TRUE, !.t.rafId = TRUE,
              !.t.lineOf = from]

talkFinishTyping(w0, line) ==
    Bind(w0, LAMBDA w :
        LET w1 == [w EXCEPT !.t.rafId = FALSE]
            t == w.t
            activeLine == IF line # NullTalkLine THEN line
                          ELSE IF t.currentLine # NullTalkLine THEN t.currentLine
                          ELSE IF t.current # "" /\ t.lineIndex < Len(Talks[t.current].lines)
                          THEN Talks[t.current].lines[t.lineIndex + 1]
                          ELSE NullTalkLine
        IN  IF activeLine = NullTalkLine THEN w1
            ELSE IF Len(activeLine.choices) > 0
            THEN [w1 EXCEPT !.t.isTyping = FALSE, !.t.choices = activeLine.choices,
                            !.t.waitingForInput = FALSE]
            ELSE [w1 EXCEPT !.t.isTyping = FALSE, !.t.waitingForInput = TRUE])

RECURSIVE talkEnd(_)
RECURSIVE talkNextLine(_)
RECURSIVE talkPlay(_, _)
RECURSIVE advanceScript(_)
RECURSIVE startScript(_, _, _)
RECURSIVE runCallback(_, _)

\* what calling a callback does
runCallback(w, callback) ==
    CASE callback.do = "play" -> talkPlay(w, callback.arg)
      [] callback.do = "script" -> startScript(w, TalkScripts[callback.arg], NoCallback)
      [] callback.do = "stop" -> talkStop(w)
      [] OTHER -> w

\* the callback end() picks
endCallback(t) ==
    IF t.isScriptMode THEN t.scriptOnComplete
    ELSE IF t.current # "" THEN Talks[t.current].onComplete ELSE NoCallback

\* the completion callback of what play or startScript started last
owedCallback(t) ==
    IF t.latest = "script" THEN t.scriptOnComplete
    ELSE IF t.latest # "" THEN Talks[t.latest].onComplete ELSE NoCallback

\* end(): w1 is the manager cleared, w2 the manager after the callback
talkEnd(w0) ==
    Bind(w0, LAMBDA w :
    Bind(clearState(talkCleanup(w)), LAMBDA w1 :
    Bind(IF endCallback(w.t) # NoCallback THEN runCallback(w1, endCallback(w.t)) ELSE w1,
         LAMBDA w2 :
    Bind(IF ~w2.t.active THEN talkHide(w2) ELSE w2, LAMBDA w3 :
        [w3 EXCEPT !.t.ends =
            Append(@, [owed |-> owedCallback(w.t), ran |-> endCallback(w.t),
                       calls |-> IF endCallback(w.t) # NoCallback THEN 1 ELSE 0,
                       clear |-> IsClear(w1.t), started |-> w2.t.active,
                       active |-> w3.t.active, listener |-> w3.t.inputListener,
                       hidden |-> w3.t.hidden])]))))

talkNextLine(w0) ==
    Bind(w0, LAMBDA w :
        IF w.t.current = "" \/ w.t.lineIndex >= Len(Talks[w.t.current].lines) THEN talkEnd(w)
        ELSE talkTypeText(w, Talks[w.t.current].lines[w.t.lineIndex + 1], "dialogue"))

talkPlay(w, id) ==
    IF id \notin DOMAIN Talks THEN w
    ELSE talkNextLine(talkShow([talkCleanup(w) EXCEPT !.t.current = id, !.t.lineIndex = 0,
                                                      !.t.active = TRUE, !.t.latest = id]))

\* the choices advanceScript makes of the options of a choice line
choicesOfOptions(options) == [i \in 1..Len(options) |-> MkChoice(options[i].text, i - 1)]

targetsOfAll(w, options) ==
    LET line == w.s.blocks[w.s.currentBlock][w.s.currentIndex]
    IN  [i \in 1..Len(options) |-> line.options[i].target]

targetsOf(w, options) == [i \in 1..Len(options) |-> options[i].target]

advanceScript(w0) ==
    Bind(w0, LAMBDA w :
    Bind(scriptNext(Calling(w.s, "next"), MaxFrames), LAMBDA s1 :
    Bind([w EXCEPT !.s = s1], LAMBDA w1 :
        IF s1.last.threw THEN w1
        ELSE IF Returns(s1) = NullLine THEN talkEnd(w1)
        ELSE IF Returns(s1).type = "say"
        THEN talkTypeText(w1, MkLine(Returns(s1).text, << >>), "script")
        ELSE talkTypeText([w1 EXCEPT !.t.currentChoiceTargets =
                                        targetsOf(w1, Returns(s1).options)],
                          MkLine("...", choicesOfOptions(Returns(s1).options)), "script"))))

startScript(w0, source, onComplete) ==
    Bind(w0, LAMBDA w :
        LET w1 == [talkCleanup(w) EXCEPT !.t.isScriptMode = TRUE, !.t.active = TRUE,
                                         !.t.scriptOnComplete = onComplete,
                                         !.t.latest = "script",
                                         !.s = scriptStart(scriptLoad(Calling(w.s, "load"),
                                                                      source))]
        IN  advanceScript(talkShow(w1)))

talkHandleInput(w0) ==
    Bind(w0, LAMBDA w :
        IF ~w.t.active THEN w
        ELSE IF w.t.isTyping THEN talkFinishTyping(w, NullTalkLine)
        ELSE IF w.t.waitingForInput
        THEN IF w.t.isScriptMode THEN advanceScript(w)
             ELSE talkNextLine([w EXCEPT !.t.lineIndex = @ + 1])
        ELSE w)

\* a record of one choice selection: the dialogue or script whose choices
\* were shown, the text chosen, the onChoice calls made, the current
\* dialogue before and after them, whether the manager advanced, and in
\* script mode the target jumped to
MkPick(t, value, calls, after, advanced, target) ==
    [of |-> IF t.lineOf = "script" THEN "script" ELSE t.current, value |-> value,
     text |-> t.choices[value + 1].text, calls |-> calls, before |-> t.current,
     after |-> after, advanced |-> advanced, target |-> target]

\* currentChoiceTargets[value], "" when it is undefined
targetAt(t, value) ==
    IF value < Len(t.currentChoiceTargets) THEN t.currentChoiceTargets[value + 1] ELSE ""

hasOnChoice(t) == t.current # "" /\ Len(Talks[t.current].onChoice) > 0

talkHandleChoice(w0, value) ==
    Bind(w0, LAMBDA w :
        IF w.t.isScriptMode
        THEN Bind([w EXCEPT !.t.picked = Append(@, MkPick(w.t, value, 0, w.t.current, FALSE,
                                                          targetAt(w.t, value)))],
                  LAMBDA w1 :
                    IF targetAt(w.t, value) # ""
                    THEN advanceScript([w1 EXCEPT !.s = jumpTo(w1.s, targetAt(w.t, value))])
                    ELSE w1)
        ELSE Bind(IF hasOnChoice(w.t)
                  THEN runCallback(w, Talks[w.t.current].onChoice[value + 1]) ELSE w,
                  LAMBDA w1 :
                    LET same == w1.t.current # "" /\ w1.t.current = w.t.current
                        w2 == [w1 EXCEPT !.t.picked =
                                  Append(@, MkPick(w.t, value,
                                                   IF hasOnChoice(w.t) THEN 1 ELSE 0,
                                                   w1.t.current, same, ""))]
                    IN  IF same THEN talkNextLine([w2 EXCEPT !.t.lineIndex = @ + 1])
                        ELSE w2))

\* the world at the start of a call: the records of the call before are dropped
Fresh == World([talk EXCEPT !.ends = << >>, !.picked = << >>], scr)

notTalk == << levelVars, beside, sw, audio, lm, store >>

\* the step leaves the manager and the ScriptManager as in w
Becomes(w) ==
    /\ talk' = w.t
    /\ scr' = w.s
    /\ UNCHANGED notTalk

Affordable == \A key \in DOMAIN scr.variables : scr.variables[key] < MaxGold

TalkPlay(id) == Becomes(talkPlay(Fresh, id))

TalkStartScript(name, onComplete) ==
    /\ Affordable
    /\ Becomes(startScript(Fresh, TalkScripts[name], onComplete))

TalkStop == Becomes(talkStop(Fresh))

\* a key press or a click outside the choice buttons
TalkInput ==
    /\ talk.inputListener
    /\ Affordable
    /\ Becomes(talkHandleInput(Fresh))

\* a click on the choice button of the given value
TalkChoose(value) ==
    /\ value < Len(talk.choices)
    /\ Affordable
    /\ Becomes(talkHandleChoice(Fresh, value))

\* the requested animation frame: it either requests the next one or, with
\* the text complete, finishes the line it was started for
TalkFrame ==
    /\ talk.rafId
    /\ Becomes(talkFinishTyping(Fresh, talk.currentLine))

InitTalk == InitScript

NextTalk ==
    \/ \E id \in DOMAIN Talks \cup {"missing"} : TalkPlay(id)
    \/ \E name \in DOMAIN TalkScripts, onComplete \in ScriptCallbacks :
            TalkStartScript(name, onComplete)
    \/ TalkStop
    \/ TalkInput
    \/ \E value \in 0..3 : TalkChoose(value)
    \/ TalkFrame

SpecTalk == InitTalk /\ [][NextTalk]_vars

\* ------------------------------------------------------------------------
\* LevelStore (src/unnamed/part_006)
\* ------------------------------------------------------------------------
\* most levels the store is grown to
MaxLevels == 2

\* most " (Copy)" a duplicated name is given
MaxCopies == 1

\* level names: a base and the number of " (Copy)" appended to it
Bases == {"a"}

exists(s, id) == id \in s.levels

\* generateId(name): the base itself, then base_1, base_2, ...
generateId(s, base, copies) ==
    LET free(n) == ~exists(s, MkId(base, copies, n))
    IN  MkId(base, copies,
             CHOOSE n \in 0..Cardinality(s.levels) : free(n) /\ \A m \in 0..(n - 1) : ~free(m))

saveToStorage(s) ==
    [s EXCEPT !.storage.meta = s.meta, !.storage.keys = @ \cup s.levels]

loadFromStorage(s) ==
    LET s1 == [s EXCEPT !.meta = s.storage.meta,
                        !.levels = s.storage.meta \cap s.storage.keys]
    IN  IF s1.storage.legacy
        THEN saveToStorage([s1 EXCEPT !.levels = @ \cup s1.storage.old,
                                      !.storage.keys = @ \cup (s1.storage.old \ s1.levels),
                                      !.storage.legacy = FALSE, !.storage.old = {}])
        ELSE s1

ensureStarterLevel(s) ==
    IF Cardinality(s.levels) = 0
    THEN saveToStorage([s EXCEPT !.levels = @ \cup {Starter}, !.meta = @ \cup {Starter}])
    ELSE s

\* new LevelStore() over the given localStorage
construct(storage) == ensureStarterLevel(loadFromStorage(MkLevelStore(storage)))

storeCreate(s, base) ==
    LET id == generateId(s, base, 0)
    IN  saveToStorage([s EXCEPT !.levels = @ \cup {id}, !.meta = @ \cup {id}])

storeDelete(s, id) ==
    IF Cardinality(s.levels) <= 1 THEN [s EXCEPT !.last.returned = FALSE]
    ELSE [saveToStorage([s EXCEPT !.levels = @ \ {id}, !.meta = @ \ {id}])
            EXCEPT !.last.returned = TRUE, !.last.removed = exists(s, id)]

storeDuplicate(s, id) ==
    IF ~exists(s, id) THEN s
    ELSE LET newId == generateId(s, id.base, id.copies + 1)
         IN  saveToStorage([s EXCEPT !.levels = @ \cup {newId}, !.meta = @ \cup {newId}])

\* save(config): the partial save writes the level's own key and the metadata
storeSave(s, id) ==
    [s EXCEPT !.levels = @ \cup {id}, !.meta = @ \cup {id},
              !.storage.keys = @ \cup {id}, !.storage.meta = s.meta \cup {id}]

\* importFromJson of a config with the given id, or of text that is not one
importFromJson(s, id, valid) ==
    IF ~valid THEN s
    ELSE storeSave(s, IF exists(s, id) THEN generateId(s, id.base, id.copies) ELSE id)

clearAllLevels(s) == ensureStarterLevel(saveToStorage([s EXCEPT !.levels = {}, !.meta = {}]))

\* what localStorage can hold when the page loads: nothing, what this store
\* has saved, only the legacy key, and a metadata entry whose level key was
\* never written
Storages ==
    {MkStorage({}, {}, FALSE, {}),
     MkStorage({MkId("a", 0, 0)}, {MkId("a", 0, 0)}, FALSE, {}),
     MkStorage({}, {}, TRUE, {MkId("a", 0, 0)}),
     MkStorage({MkId("a", 0, 0), MkId("a", 0, 1)}, {MkId("a", 0, 0)}, FALSE, {})}

\* ids a caller passes
CallIds == {MkId(base, 0, n) : base \in Bases, n \in 0..1} \cup {Starter}

StoreCalling(call, id) == [store EXCEPT !.last = [NoStoreCall EXCEPT !.call = call, !.id = id]]

notStore == << levelVars, beside, sw, audio, lm, scr, talk >>

Room == Cardinality(store.levels) < MaxLevels

StoreCreate(base) ==
    /\ Room
    /\ store' = storeCreate(StoreCalling("create", Starter), base)
    /\ UNCHANGED notStore

StoreSave(id) ==
    /\ Room \/ exists(store, id)
    /\ store' = storeSave(StoreCalling("save", id), id)
    /\ UNCHANGED notStore

StoreDelete(id) ==
    /\ store' = storeDelete(StoreCalling("delete", id), id)
    /\ UNCHANGED notStore

StoreDuplicate(id) ==
    /\ Room
    /\ id.copies < MaxCopies
    /\ store' = storeDuplicate(StoreCalling("duplicate", id), id)
    /\ UNCHANGED notStore

StoreImport(id, valid) ==
    /\ Room
    /\ store' = importFromJson(StoreCalling("importFromJson", id), id, valid)
    /\ UNCHANGED notStore

StoreClearAll ==
    /\ store' = clearAllLevels(StoreCalling("clearAllLevels", Starter))
    /\ UNCHANGED notStore

\* the page is loaded again: a new store is constructed over localStorage
StoreReload ==
    /\ store' = construct(store.storage)
    /\ UNCHANGED notStore

InitStore ==
    /\ LevelInit(MkConfig(<< >>, 0, {}))
    /\ QuestIdle
    /\ NpcIdle
    /\ PortalIdle
    /\ EditorIdle
    /\ sw = NoSwap
    /\ audio = NoAudio
    /\ ManagerIdle
    /\ scr = MkScriptManager
    /\ talk = MkDialogueManager
    /\ \E storage \in Storages : store = construct(storage)

NextStore ==
    \/ \E base \in Bases : StoreCreate(base)
    \/ \E id \in CallIds : StoreSave(id)
    \/ \E id \in CallIds : StoreDelete(id)
    \/ \E id \in CallIds : StoreDuplicate(id)
    \/ \E id \in CallIds, valid \in BOOLEAN : StoreImport(id, valid)
    \/ StoreClearAll
    \/ StoreReload

SpecStore == InitStore /\ [][NextStore]_vars

\* Bulk load of an arbitrary spawn list.
InitLoad == \E ents \in SeqsUpTo(SpawnChoices, MaxListLen) : InitWith(MkConfig(ents, 0, {"intro"}))

NextLoad == Load

SpecLoad == InitLoad /\ [][NextLoad]_vars

\* The frame loop: a level is loaded and played, hot-updated, switched in
\* and out of editor mode.
InitPlay == \E config \in Documents : InitWith(config)

NextPlay ==
    \/ Load
    \/ Tick
    \/ DialogueEnd
    \/ \E config \in Redeclared(levelConfig) : HotUpdate(config)
    \/ \E enabled \in BOOLEAN : SetEditorMode(enabled)
    \/ EnableEditorMode
    \/ Dispose

SpecPlay == InitPlay /\ [][NextPlay]_vars

\* ------------------------------------------------------------------------
\* Quest graphs (Level.executeQuestGraph of src/unnamed/part_008) on the
\* DialogueManager of src/src/managers/DialogueManager.ts
\* ------------------------------------------------------------------------
\* a QuestGraphNode: `text` is widgets_values[0] of a Say node or the prompt
\* of a Choice node, `options` the options of a Choice node, `outputs` the
\* first link id of each output slot (NoLink for a slot without links)
MkNode(id, type, text, options, outputs) ==
    [id |-> id, type |-> type, text |-> text, options |-> options, outputs |-> outputs]

\* a QuestGraphLink [id, origin, origin slot, target, ...]
MkLink(id, from, slot, to) == [id |-> id, from |-> from, slot |-> slot, to |-> to]

NoNodeRec == MkNode(NoNode, "none", "", << >>, << >>)

\* Start -> Say(A) -> Say(B) -> Choice([X -> End, Y -> End])
GraphSayChoice ==
    [nodes |-> << MkNode(1, "Dialog/Start", "", << >>, << 1 >>),
                  MkNode(2, "Dialog/Say", "A", << >>, << 2 >>),
                  MkNode(3, "Dialog/Say", "B", << >>, << 3 >>),
                  MkNode(4, "Dialog/Choice", "Choose...", << "X", "Y" >>, << 4, 5 >>),
                  MkNode(5, "Dialog/End", "", << >>, << >>),
                  MkNode(6, "Dialog/End", "", << >>, << >>) >>,
     links |-> { MkLink(1, 1, 0, 2), MkLink(2, 2, 0, 3), MkLink(3, 3, 0, 4),
                 MkLink(4, 4, 0, 5), MkLink(5, 4, 1, 6) }]

\* Start -> Choice([X -> Say(A) -> Say(B), Y -> End, Z -> nothing])
GraphChoiceFirst ==
    [nodes |-> << MkNode(1, "Dialog/Start", "", << >>, << 1 >>),
                  MkNode(2, "Dialog/Choice", "Choose...", << "X", "Y", "Z" >>, << 2, 3, NoLink >>),
                  MkNode(3, "Dialog/Say", "A", << >>, << 4 >>),
                  MkNode(4, "Dialog/Say", "B", << >>, << NoLink >>),
                  MkNode(5, "Dialog/End", "", << >>, << >>) >>,
     links |-> { MkLink(1, 1, 0, 2), MkLink(2, 2, 0, 3), MkLink(3, 2, 1, 5),
                 MkLink(4, 3, 0, 4) }]

\* Start -> Give -> Check -> [Say(A) -> End, Say(B)]
GraphCheck ==
    [nodes |-> << MkNode(1, "Dialog/Start", "", << >>, << 1 >>),
                  MkNode(2, "Dialog/Give", "", << >>, << 2 >>),
                  MkNode(3, "Dialog/Check", "Stat", << >>, << 3, 4 >>),
                  MkNode(4, "Dialog/Say", "A", << >>, << 5 >>),
                  MkNode(5, "Dialog/Say", "B", << >>, << NoLink >>),
                  MkNode(6, "Dialog/End", "", << >>, << >>) >>,
     links |-> { MkLink(1, 1, 0, 2), MkLink(2, 2, 0, 3), MkLink(3, 3, 0, 4),
                 MkLink(4, 3, 1, 5), MkLink(5, 4, 0, 6) }]

GraphEmpty == [nodes |-> << >>, links |-> {}]

\* no node of type Dialog/Start
GraphNoStart ==
    [nodes |-> << MkNode(2, "Dialog/Say", "A", << >>, << 1 >>),
                  MkNode(3, "Dialog/End", "", << >>, << >>) >>,
     links |-> { MkLink(1, 2, 0, 3) }]

\* Start -> (unknown type) -> Say(A)
GraphUnknownFirst ==
    [nodes |-> << MkNode(1, "Dialog/Start", "", << >>, << 1 >>),
                  MkNode(2, "Dialog/Dance", "", << >>, << 2 >>),
                  MkNode(3, "Dialog/Say", "A", << >>, << NoLink >>) >>,
     links |-> { MkLink(1, 1, 0, 2), MkLink(2, 2, 0, 3) }]

\* Start -> Say(A) -> (unknown type) -> Say(B)
GraphUnknownAfterSay ==
    [nodes |-> << MkNode(1, "Dialog/Start", "", << >>, << 1 >>),
                  MkNode(2, "Dialog/Say", "A", << >>, << 2 >>),
                  MkNode(3, "Dialog/Dance", "", << >>, << 3 >>),
                  MkNode(4, "Dialog/Say", "B", << >>, << NoLink >>) >>,
     links |-> { MkLink(1, 1, 0, 2), MkLink(2, 2, 0, 3), MkLink(3, 3, 0, 4) }]

\* Start -> Say(A) -> link 2, whose target node 9 does not exist
GraphMissingTarget ==
    [nodes |-> << MkNode(1, "Dialog/Start", "", << >>, << 1 >>),
                  MkNode(2, "Dialog/Say", "A", << >>, << 2 >>),
                  MkNode(3, "Dialog/Say", "B", << >>, << NoLink >>) >>,
     links |-> { MkLink(1, 1, 0, 2), MkLink(2, 2, 0, 9) }]

\* Start -> Choice([X -> link 7, which is not in the link list, Y -> Say(A)])
GraphMissingLink ==
    [nodes |-> << MkNode(1, "Dialog/Start", "", << >>, << 1 >>),
                  MkNode(2, "Dialog/Choice", "Choose...", << "X", "Y" >>, << 7, 2 >>),
                  MkNode(3, "Dialog/Say", "A", << >>, << NoLink >>) >>,
     links |-> { MkLink(1, 1, 0, 2), MkLink(2, 2, 1, 3) }]

\* the graphs with one of the defects of the error taxonomy
MalformedGraphs ==
    { GraphEmpty, GraphNoStart, GraphUnknownFirst, GraphUnknownAfterSay,
      GraphMissingTarget, GraphMissingLink }

Graphs == { GraphSayChoice, GraphChoiceFirst, GraphCheck } \cup MalformedGraphs

\* frames the JavaScript call stack has room for
MaxStack == 8

\* NPC interactions that start a quest graph
MaxStarts == 2

\* the walk's working state: the dialogue box d, what has been shown so far,
\* whether an exception is propagating, the graph, and what Math.random()
\* makes of a Check node
MkWalk(d, log, threw, graph, luck) ==
    [d |-> d, log |-> log, threw |-> threw, graph |-> graph, luck |-> luck, stuck |-> "no"]

Ev(ev, node, text) == [ev |-> ev, node |-> node, text |-> text]

Throw(q) == [q EXCEPT !.threw = TRUE]

\* the recursion of runStep has used up the call stack: a RangeError
Overflow(q) == [Throw(q) EXCEPT !.stuck = "stack"]

\* the while loop of the Dialog/Say case never ends
Hang(q) == [q EXCEPT !.stuck = "loop"]

\* parseQuestLinks and linkMap.get: the link registered under id
linkMapGet(graph, id) ==
    IF \E l \in graph.links : l.id = id
    THEN CHOOSE l \in graph.links : l.id = id
    ELSE MkLink(NoLink, NoNode, 0, NoNode)

\* getNode inside executeQuestGraph
getNode(graph, id) ==
    IF \E k \in 1..Len(graph.nodes) : graph.nodes[k].id = id
    THEN graph.nodes[CHOOSE k \in 1..Len(graph.nodes) :
                        /\ graph.nodes[k].id = id
                        /\ \A j \in 1..(k - 1) : graph.nodes[j].id # id]
    ELSE NoNodeRec

\* getNextNode inside executeQuestGraph: the id of the node behind output
\* slot slotIndex, NoNode for null
getNextNode(graph, node, slotIndex) ==
    IF slotIndex + 1 > Len(node.outputs) THEN NoNode
    ELSE IF node.outputs[slotIndex + 1] = NoLink THEN NoNode
    ELSE LET link == linkMapGet(graph, node.outputs[slotIndex + 1])
         IN IF link.id = NoLink THEN NoNode ELSE getNode(graph, link.to).id

\* the while loop of the Dialog/Say case: the lines of the run of Say nodes
\* that starts at node, and the node behind the last of them. A run with
\* more lines than the graph has nodes has come back to one of its nodes:
\* the loop goes round for ever
RECURSIVE sayRun(_, _, _)
sayRun(graph, node, lines) ==
    LET next == getNode(graph, getNextNode(graph, node, 0))
        all == Append(lines, MkLine(node.text, << >>))
    IN IF Len(all) > Len(graph.nodes) THEN [lines |-> all, next |-> NoNode, loops |-> TRUE]
       ELSE IF next.type = "Dialog/Say" THEN sayRun(graph, next, all)
       ELSE [lines |-> all, next |-> next.id, loops |-> FALSE]

\* the choices of a Choice node: at most three options
choicesOf(node) == SubSeq(node.options, 1, Min(3, Len(node.options)))

\* DialogueManager.cleanup
cleanup(d) ==
    [d EXCEPT !.anims = {a \in @ : a.id # d.rafId},
              !.rafId = NoRaf,
              !.listening = FALSE,
              !.choices = << >>]

\* DialogueManager.typeText: a new animation is requested
typeText(q, line) ==
    LET id == CHOOSE i \in 1..(Cardinality(q.d.anims) + 1) : \A a \in q.d.anims : a.id # i
    IN [q EXCEPT !.d = [@ EXCEPT !.isTyping = TRUE,
                                 !.waitingForInput = FALSE,
                                 !.choices = << >>,
                                 !.listening = TRUE,
                                 !.anims = @ \cup {[id |-> id, line |-> line]},
                                 !.rafId = id],
                 !.log = Append(@, Ev("line", q.d.current.node, line.text))]

RECURSIVE runStep(_, _, _)
RECURSIVE end(_, _)
RECURSIVE nextLine(_, _)
RECURSIVE play(_, _, _)

\* DialogueManager.nextLine
nextLine(q, fuel) ==
    IF q.d.current = NoDialogue \/ q.d.lineIndex >= Len(q.d.current.lines)
    THEN end(q, fuel)
    ELSE typeText(q, q.d.current.lines[q.d.lineIndex + 1])

\* DialogueManager.end: onComplete runs first, with `current` still set
end(q, fuel) ==
    IF fuel = 0 THEN Throw(q)
    ELSE LET q1 == IF q.d.current.kind = "say" /\ q.d.current.next # NoNode
                   THEN runStep(q, q.d.current.next, fuel - 1)
                   ELSE q
         IN IF q1.threw \/ q1.stuck # "no" THEN q1
            ELSE [q1 EXCEPT !.d = [cleanup(q1.d) EXCEPT !.active = FALSE,
                                                        !.current = NoDialogue,
                                                        !.lineIndex = 0,
                                                        !.isTyping = FALSE,
                                                        !.waitingForInput = FALSE,
                                                        !.visible = FALSE]]

\* DialogueManager.register followed by DialogueManager.play
play(q, dialogue, fuel) ==
    nextLine([q EXCEPT !.d = [cleanup(q.d) EXCEPT !.current = dialogue,
                                                  !.lineIndex = 0,
                                                  !.active = TRUE,
                                                  !.visible = TRUE]], fuel)

\* runStep inside executeQuestGraph
runStep(q, nodeId, fuel) ==
    IF fuel = 0 THEN Overflow(q)
    ELSE LET node == getNode(q.graph, nodeId)
             q0 == [q EXCEPT !.log = Append(@, Ev("node", nodeId, node.type))]
             follow(slot) == IF getNextNode(q.graph, node, slot) # NoNode
                             THEN runStep(q0, getNextNode(q.graph, node, slot), fuel - 1)
                             ELSE q0
         IN IF node = NoNodeRec THEN q
            ELSE CASE node.type = "Dialog/Start" -> follow(0)
                   [] node.type = "Dialog/Say" ->
                        LET run == sayRun(q.graph, node, << >>)
                        IN IF run.loops THEN Hang(q0)
                           ELSE play(q0, MkDialogue("say", nodeId, run.lines, run.next),
                                     fuel - 1)
                   [] node.type = "Dialog/Choice" ->
                        play(q0, MkDialogue("choice", nodeId,
                                            << MkLine(node.text, choicesOf(node)) >>, NoNode),
                             fuel - 1)
                   [] node.type = "Dialog/Check" ->
                        follow(IF node.text = "Level" \/ q.luck THEN 0 ELSE 1)
                   [] node.type = "Dialog/Give" -> follow(0)
                   [] node.type = "Dialog/End" -> end(q0, fuel - 1)
                   [] OTHER -> q0

\* executeQuestGraph that starts at the first node, whatever its type
executeQuestGraphFromFirst(q) ==
    IF Len(q.graph.nodes) = 0 THEN q
    ELSE runStep(q, q.graph.nodes[1].id, MaxStack)

\* Level.executeQuestGraph
executeQuestGraph(q) ==
    IF Len(q.graph.nodes) = 0 THEN q
    ELSE IF \E k \in 1..Len(q.graph.nodes) : q.graph.nodes[k].type = "Dialog/Start"
         THEN runStep(q, q.graph.nodes[CHOOSE k \in 1..Len(q.graph.nodes) :
                                          /\ q.graph.nodes[k].type = "Dialog/Start"
                                          /\ \A j \in 1..(k - 1) :
                                                q.graph.nodes[j].type # "Dialog/Start"].id,
                      MaxStack)
         ELSE q

\* DialogueManager.finishTyping(line)
finishTyping(q, line) ==
    LET d1 == [q.d EXCEPT !.anims = {a \in @ : a.id # q.d.rafId}, !.rafId = NoRaf]
    IN IF d1.current = NoDialogue THEN [q EXCEPT !.d = d1]
       ELSE IF Len(line.choices) > 0
            THEN [q EXCEPT !.d = [d1 EXCEPT !.isTyping = FALSE,
                                            !.choices = line.choices,
                                            !.waitingForInput = FALSE],
                           !.log = Append(@, Ev("choices", d1.current.node, line.text))]
            ELSE [q EXCEPT !.d = [d1 EXCEPT !.isTyping = FALSE, !.waitingForInput = TRUE]]

\* DialogueManager.handleInput for a key or click that counts
handleInput(q) ==
    IF ~q.d.active THEN q
    ELSE IF q.d.isTyping
         THEN IF q.d.lineIndex < Len(q.d.current.lines)
              THEN finishTyping(q, q.d.current.lines[q.d.lineIndex + 1])
              ELSE Throw([q EXCEPT !.d = [@ EXCEPT !.anims = {a \in @ : a.id # q.d.rafId},
                                                   !.rafId = NoRaf]])
         ELSE IF q.d.waitingForInput
              THEN nextLine([q EXCEPT !.d.lineIndex = @ + 1], MaxStack)
              ELSE q

\* the onChoice callback executeQuestGraph gives a Choice dialogue
onChoice(q, slotIndex, fuel) ==
    LET node == getNode(q.graph, q.d.current.node)
    IN IF getNextNode(q.graph, node, slotIndex) # NoNode
       THEN runStep(q, getNextNode(q.graph, node, slotIndex), fuel)
       ELSE end(q, fuel)

\* DialogueManager.handleChoiceSelection
handleChoiceSelection(q, value) ==
    LET q0 == [q EXCEPT !.log = Append(@, Ev("pick", value, ""))]
        q1 == IF q0.d.current.kind = "choice" THEN onChoice(q0, value, MaxStack) ELSE q0
    IN IF q1.threw \/ q1.stuck # "no" THEN q1
       ELSE nextLine([q1 EXCEPT !.d.lineIndex = @ + 1], MaxStack)

Walk(luck) == MkWalk(dlg, quest.log, quest.threw, quest.graph, luck)

\* every call into the walk so far has returned to the frame loop
Returned == ~quest.threw /\ quest.stuck = "no"

SetWalk(q) ==
    /\ dlg' = q.d
    /\ quest' = [quest EXCEPT !.log = q.log, !.threw = q.threw, !.stuck = q.stuck]
    /\ UNCHANGED notQuest

\* Level.handleNPCInteraction reaches an NPC that carries a quest graph; the
\* walk is followed up to its first uncaught exception
QuestStart ==
    /\ Returned
    /\ quest.starts < MaxStarts
    /\ ~dlg.active
    /\ \E graph \in Graphs, luck \in BOOLEAN :
         LET q == executeQuestGraph([Walk(luck) EXCEPT !.graph = graph, !.log = << >>])
         IN /\ dlg' = q.d
            /\ quest' = [graph |-> graph, starts |-> quest.starts + 1,
                         log |-> q.log, threw |-> q.threw, stuck |-> q.stuck]
    /\ UNCHANGED notQuest

\* the typewriter animation a reaches the end of the text
TypingDone ==
    /\ Returned
    /\ \E a \in dlg.anims :
        SetWalk(finishTyping([Walk(TRUE) EXCEPT !.d.anims = @ \ {a}], a.line))

\* the user presses Space or Enter, or clicks outside the choice buttons
Input ==
    /\ Returned
    /\ dlg.listening
    /\ dlg.active
    /\ dlg.isTyping \/ dlg.waitingForInput
    /\ \E luck \in BOOLEAN : SetWalk(handleInput(Walk(luck)))

\* the user clicks choice button `value`
Choose ==
    /\ Returned
    /\ \E value \in 0..(Len(dlg.choices) - 1), luck \in BOOLEAN :
        SetWalk(handleChoiceSelection(Walk(luck), value))

InitQuest ==
    /\ LevelInit(MkConfig(<< >>, 0, {}))
    /\ dlg = InitialDlg
    /\ quest = NoQuest
    /\ LaterIdle
    /\ NpcIdle
    /\ PortalIdle
    /\ EditorIdle

NextQuest == QuestStart \/ TypingDone \/ Input \/ Choose

SpecQuest == InitQuest /\ [][NextQuest]_vars

\* Start -> Say(A) -> Say(B) -> back to Say(A)
GraphSayLoop ==
    [nodes |-> << MkNode(1, "Dialog/Start", "", << >>, << 1 >>),
                  MkNode(2, "Dialog/Say", "A", << >>, << 2 >>),
                  MkNode(3, "Dialog/Say", "B", << >>, << 3 >>) >>,
     links |-> { MkLink(1, 1, 0, 2), MkLink(2, 2, 0, 3), MkLink(3, 3, 0, 2) }]

\* Start -> Give -> Check -> [back to Give, back to Start]
GraphGiveLoop ==
    [nodes |-> << MkNode(1, "Dialog/Start", "", << >>, << 1 >>),
                  MkNode(2, "Dialog/Give", "", << >>, << 2 >>),
                  MkNode(3, "Dialog/Check", "Stat", << >>, << 3, 4 >>) >>,
     links |-> { MkLink(1, 1, 0, 2), MkLink(2, 2, 0, 3), MkLink(3, 3, 0, 2),
                 MkLink(4, 3, 1, 1) }]

\* Start -> Say(A) -> Choice([X -> back to Say(A), Y -> End]): each round
\* waits for the user
GraphAskAgain ==
    [nodes |-> << MkNode(1, "Dialog/Start", "", << >>, << 1 >>),
                  MkNode(2, "Dialog/Say", "A", << >>, << 2 >>),
                  MkNode(3, "Dialog/Choice", "Choose...", << "X", "Y" >>, << 3, 4 >>),
                  MkNode(4, "Dialog/End", "", << >>, << >>) >>,
     links |-> { MkLink(1, 1, 0, 2), MkLink(2, 2, 0, 3), MkLink(3, 3, 0, 2),
                 MkLink(4, 3, 1, 4) }]

\* the graphs whose links form a cycle
CyclicGraphs == { GraphSayLoop, GraphGiveLoop, GraphAskAgain }

\* Level.handleNPCInteraction reaches an NPC whose quest graph has a cycle
QuestStartCyclic ==
    /\ Returned
    /\ quest.starts < MaxStarts
    /\ ~dlg.active
    /\ \E graph \in CyclicGraphs, luck \in BOOLEAN :
         LET q == executeQuestGraph([Walk(luck) EXCEPT !.graph = graph, !.log = << >>])
         IN /\ dlg' = q.d
            /\ quest' = [graph |-> graph, starts |-> quest.starts + 1,
                         log |-> q.log, threw |-> q.threw, stuck |-> q.stuck]
    /\ UNCHANGED notQuest

NextCycle == QuestStart \/ QuestStartCyclic \/ TypingDone \/ Input \/ Choose

SpecCycle == InitQuest /\ [][NextCycle]_vars

\* ------------------------------------------------------------------------
\* The NPC wrapper (src/src/entities/NPC.ts): animations and disposal
\* ------------------------------------------------------------------------
\* longest animation name and longest animation list tried
MaxNameLen == 1

MaxAnims == 2

\* characters of the names callers ask for and of the names animation
\* groups carry; names are sequences of characters
Alphabet == {"a", "A", "b"}

GroupAlphabet == {"a", "B"}

IdleName == << "I", "d", "l", "e" >>

IDLE_PATTERNS ==
    << << "i", "d", "l", "e" >>,
       << "c", "h", "a", "r", "a", "c", "t", "e", "r", "a", "r", "m", "a", "t", "u", "r", "e",
          "|", "i", "d", "l", "e" >> >>

\* names an asset's animation groups may carry
AnimNames == (SeqsUpTo(GroupAlphabet, MaxNameLen) \ { << >> }) \cup { IdleName }

\* names a caller may ask for
RequestNames == SeqsUpTo(Alphabet, MaxNameLen) \cup { IdleName, << "d", "l" >> }

\* String.prototype.toLowerCase
LowerChar(c) ==
    CASE c = "A" -> "a"
      [] c = "B" -> "b"
      [] c = "I" -> "i"
      [] OTHER -> c

toLowerCase(s) == [k \in 1..Len(s) |-> LowerChar(s[k])]

\* String.prototype.includes
includes(s, t) == \E i \in 0..(Len(s) - Len(t)) : SubSeq(s, i + 1, i + Len(t)) = t

\* animMap.get(key): the constructor sets ag.name and ag.name.toLowerCase()
\* for each group in turn, so the last group carrying the key wins
animMapGet(animList, key) ==
    LET hits == { k \in 1..Len(animList) : animList[k] = key \/ toLowerCase(animList[k]) = key }
    IN IF hits = {} THEN NoAnim ELSE CHOOSE k \in hits : \A j \in hits : j <= k

\* animList.find(a => a.name.toLowerCase().includes(pattern))
findIncluding(animList, pattern) ==
    LET hits == { k \in 1..Len(animList) : includes(toLowerCase(animList[k]), pattern) }
    IN IF hits = {} THEN NoAnim ELSE CHOOSE k \in hits : \A j \in hits : k <= j

\* NPC.findIdleAnim
findIdleAnim(animList) ==
    IF findIncluding(animList, IDLE_PATTERNS[1]) # NoAnim THEN findIncluding(animList, IDLE_PATTERNS[1])
    ELSE IF findIncluding(animList, IDLE_PATTERNS[2]) # NoAnim
         THEN findIncluding(animList, IDLE_PATTERNS[2])
         ELSE IF Len(animList) > 0 THEN 1 ELSE NoAnim

\* NPC.findAnim for one name; the empty name is falsy
findAnim(animList, name) ==
    IF name = << >> THEN findIdleAnim(animList)
    ELSE IF animMapGet(animList, name) # NoAnim THEN animMapGet(animList, name)
    ELSE IF animMapGet(animList, toLowerCase(name)) # NoAnim
         THEN animMapGet(animList, toLowerCase(name))
         ELSE IF findIncluding(animList, toLowerCase(name)) # NoAnim
              THEN findIncluding(animList, toLowerCase(name))
              ELSE findIdleAnim(animList)

\* NPC.stopAll
stopAll(n) == [n EXCEPT !.playing = {}, !.currentAnim = NoAnim]

\* the NPC constructor: every group is stopped, then the idle one is played
NewNPC(animList, idle) ==
    LET n == MkNPC(animList)
    IN IF findAnim(animList, idle) # NoAnim
       THEN [n EXCEPT !.playing = {findAnim(animList, idle)},
                      !.currentAnim = findAnim(animList, idle)]
       ELSE n

\* the animation playAnimation resolves name to: the map lookups, then the
\* partial match
resolve(animList, name) ==
    LET exact == animMapGet(animList, name)
        lower == animMapGet(animList, toLowerCase(name))
    IN IF exact # NoAnim THEN exact
       ELSE IF lower # NoAnim THEN lower
            ELSE findIncluding(animList, toLowerCase(name))

\* playAnimGroup without its stopAll()
playAnimGroupNoStop(n, anim) ==
    IF n.currentAnim = anim THEN n
    ELSE [n EXCEPT !.playing = @ \cup {anim}, !.currentAnim = anim]

\* NPC.playAnimGroup; it returns true on both paths
playAnimGroup(n, anim) ==
    IF n.currentAnim = anim THEN n
    ELSE [stopAll(n) EXCEPT !.playing = {anim}, !.currentAnim = anim]

\* NPC.playAnimation: the NPC afterwards, and what the call returned
playAnimation(n, name) ==
    IF n.disposed THEN [npc |-> n, result |-> FALSE]
    ELSE IF resolve(n.animList, name) = NoAnim THEN [npc |-> n, result |-> FALSE]
    ELSE [npc |-> playAnimGroup(n, resolve(n.animList, name)), result |-> TRUE]

\* NPC.dispose
npcDispose(n) ==
    IF n.disposed THEN n
    ELSE [stopAll(n) EXCEPT !.disposed = TRUE,
                            !.agDisposed = [k \in 1..Len(n.animList) |-> @[k] + 1],
                            !.meshDisposed = @ + 1]

CallOf(op, name, result) ==
    [op |-> op, name |-> name, result |-> result, currentBefore |-> npcw.currentAnim,
     playingBefore |-> npcw.playing, disposedBefore |-> npcw.disposed]

PlayAnimation ==
    /\ \E name \in RequestNames :
         LET r == playAnimation(npcw, name)
         IN npcw' = [r.npc EXCEPT !.call = CallOf("playAnimation", name, r.result)]
    /\ UNCHANGED notNpcw

NpcDispose ==
    /\ npcw' = [npcDispose(npcw) EXCEPT !.call = CallOf("dispose", << >>, FALSE)]
    /\ UNCHANGED notNpcw

InitNpc ==
    /\ LevelInit(MkConfig(<< >>, 0, {}))
    /\ QuestIdle
    /\ LaterIdle
    /\ \E animList \in SeqsUpTo(AnimNames, MaxAnims), idle \in { << >>, << "b" >> } :
          npcw = NewNPC(animList, idle)
    /\ PortalIdle
    /\ EditorIdle

NextNpc == PlayAnimation \/ NpcDispose

SpecNpc == InitNpc /\ [][NextNpc]_vars

\* ------------------------------------------------------------------------
\* The Portal wrapper (second class of src/unnamed/part_000) and the
\* resources BaseLevel.dispose releases
\* ------------------------------------------------------------------------
MaxPortals == 1

MaxClicks == 3

MaxDisposeCalls == 2

PortalIds == 1..MaxPortals

\* the Portal constructor
NewPortal(editorMode) == [MkPortal EXCEPT !.editorMode = editorMode,
                                          !.am = ~editorMode,
                                          !.handlers = IF editorMode THEN 0 ELSE 1]

\* Portal.setupInteraction: a new ActionManager carrying one pick action
setupInteraction(p) == [p EXCEPT !.am = TRUE, !.handlers = 1]

\* the editorMode setter that leaves the action manager in place
setEditorModeKeepingHandler(p, value) ==
    IF ~value /\ ~p.am THEN setupInteraction([p EXCEPT !.editorMode = value])
    ELSE [p EXCEPT !.editorMode = value]

\* Portal's `set editorMode`
setEditorMode(p, value) ==
    IF value /\ p.am THEN [p EXCEPT !.editorMode = value, !.am = FALSE, !.handlers = 0]
    ELSE IF ~value /\ ~p.am THEN setupInteraction([p EXCEPT !.editorMode = value])
    ELSE [p EXCEPT !.editorMode = value]

\* the code of the pick action registered by setupInteraction
onPick(p) ==
    IF p.disposed \/ p.editorMode THEN p
    ELSE [p EXCEPT !.loads = @ + 1, !.sounds = @ + 1]

\* light.dispose(): the light leaves its parent
lightDispose(p) == [p EXCEPT !.light = @ + 1, !.lightParented = FALSE]

RECURSIVE meshDispose(_)
RECURSIVE portalDispose(_)

\* mesh.dispose() as the scene library runs it: the action manager goes, the
\* nodes still parented to the mesh are disposed, the mesh is released, and
\* the observers of onDisposeObservable are called, the addOnce hook of the
\* constructor among them, before the observable is cleared
meshDispose(p) ==
    LET p1 == [p EXCEPT !.am = FALSE, !.handlers = 0]
        p2 == IF p1.lightParented THEN lightDispose(p1) ELSE p1
        p3 == [p2 EXCEPT !.mesh = @ + 1]
        p4 == IF p3.hook THEN portalDispose(p3) ELSE p3
    IN [p4 EXCEPT !.hook = FALSE]

\* Portal.dispose
portalDispose(p) ==
    IF p.disposed THEN p
    ELSE LET p1 == [p EXCEPT !.disposed = TRUE, !.renderObserver = FALSE]
             p2 == lightDispose(p1)
             p3 == [p2 EXCEPT !.material = @ + 1]
         IN meshDispose(p3)

\* BaseLevel.dispose on the resources it holds; Player.dispose is guarded
baseDispose(r) ==
    [r EXCEPT !.calls = @ + 1,
              !.playerDisposed = TRUE,
              !.player = IF r.playerDisposed THEN @ ELSE @ + 1,
              !.shadowGenerator = @ + 1,
              !.pipeline = IF r.hasPipeline THEN @ + 1 ELSE @,
              !.scene = @ + 1,
              !.held = FALSE]

\* a pointer pick on portal i's mesh: it reaches the pick action when the
\* mesh is in the scene and carries an action manager
PortalClick(i) ==
    /\ ptl[i].loads < MaxClicks
    /\ ptl[i].mesh = 0
    /\ ptl[i].am
    /\ ptl' = [ptl EXCEPT ![i] = onPick(@)]
    /\ UNCHANGED notPtl

\* portal.editorMode = value
PortalSetEditorMode(i, value) ==
    /\ ptl' = [ptl EXCEPT ![i] = setEditorMode(@, value)]
    /\ UNCHANGED notPtl

\* portal.dispose() called directly
PortalDispose(i) ==
    /\ ptl' = [ptl EXCEPT ![i] = [portalDispose(@) EXCEPT !.path = "Portal.dispose"]]
    /\ UNCHANGED notPtl

\* the Level runs portal.mesh?.dispose(): in disposeAllEntities, reached from
\* dispose and from load, or in removeEntityLive; the portal leaves the
\* registry
LevelDisposesMesh(i, path) ==
    /\ ptl[i].registered
    /\ ptl' = [ptl EXCEPT ![i] = [meshDispose(@) EXCEPT !.path = path, !.registered = FALSE]]
    /\ UNCHANGED notPtl

LevelPaths == {"dispose", "load", "removeEntityLive"}

InitPortal ==
    /\ LevelInit(MkConfig(<< >>, 0, {}))
    /\ QuestIdle
    /\ LaterIdle
    /\ NpcIdle
    /\ rt = NoRuntime
    /\ EditorIdle
    /\ ptl \in [PortalIds -> {NewPortal(editorMode) : editorMode \in BOOLEAN}]

NextPortal ==
    \/ \E i \in PortalIds : PortalClick(i)
    \/ \E i \in PortalIds, value \in BOOLEAN : PortalSetEditorMode(i, value)
    \/ \E i \in PortalIds : PortalDispose(i)
    \/ \E i \in PortalIds, path \in LevelPaths : LevelDisposesMesh(i, path)

SpecPortal == InitPortal /\ [][NextPortal]_vars

\* npc.dispose() called directly on the NPC the Level holds
NpcDisposeDirect ==
    /\ npcw' = [npcDispose(npcw) EXCEPT !.call = CallOf("dispose", << >>, FALSE)]
    /\ UNCHANGED notNpcw

\* Level.dispose: disposeAllEntities on what the registries still hold, then
\* BaseLevel.dispose
LevelDispose ==
    /\ rt.calls < MaxDisposeCalls
    /\ npcw' = IF rt.held THEN npcDispose(npcw) ELSE npcw
    /\ ptl' = [i \in PortalIds |->
                  IF ptl[i].registered
                  THEN [meshDispose(ptl[i]) EXCEPT !.path = "dispose", !.registered = FALSE]
                  ELSE ptl[i]]
    /\ rt' = baseDispose(rt)
    /\ UNCHANGED << levelVars, questVars, ed, later >>

InitDispose ==
    /\ LevelInit(MkConfig(<< >>, 0, {}))
    /\ QuestIdle
    /\ LaterIdle
    /\ \E animList \in SeqsUpTo({IdleName, << "a" >>}, MaxAnims) : npcw = NewNPC(animList, << >>)
    /\ ptl \in [PortalIds -> {NewPortal(editorMode) : editorMode \in BOOLEAN}]
    /\ \E hasPipeline \in BOOLEAN : rt = [NoRuntime EXCEPT !.hasPipeline = hasPipeline, !.held = TRUE]
    /\ EditorIdle

NextDispose ==
    \/ NpcDisposeDirect
    \/ \E i \in PortalIds : PortalDispose(i)
    \/ LevelDispose

SpecDispose == InitDispose /\ [][NextDispose]_vars

\* ------------------------------------------------------------------------
\* The editor session of the Level (Level.ts, EDITOR MODE): portals, the
\* gizmo manager, selection and transform callbacks
\* ------------------------------------------------------------------------
MaxTaps == 2

MaxDrags == 2

GizmoKinds == {"position", "rotation", "scale"}

Axes == {"x", "y", "z"}

\* the handles handleTransformChange can be registered on: the gizmo's
\* onDragEndObservable and each axis' dragBehavior.onDragObservable
Handles == {"end"} \cup Axes

\* a ground mesh without metadata, entity 0 with a child and a grandchild
SceneNested ==
    << MkMesh(NoMesh, NoIndex), MkMesh(NoMesh, 0), MkMesh(2, NoIndex), MkMesh(3, NoIndex) >>

\* entity 0, and below one of its meshes entity 1 with a child of its own
SceneEntityInEntity ==
    << MkMesh(NoMesh, 0), MkMesh(1, NoIndex), MkMesh(2, 1), MkMesh(3, NoIndex) >>

\* two entities side by side and a child of a mesh that is no entity
SceneFlat ==
    << MkMesh(NoMesh, 0), MkMesh(NoMesh, 1), MkMesh(NoMesh, NoIndex), MkMesh(3, NoIndex) >>

Scenes == { SceneNested, SceneEntityInEntity, SceneFlat }

\* Level.findEntityMesh: NoMesh for null
RECURSIVE findEntityMesh(_, _)
findEntityMesh(meshes, mesh) ==
    IF mesh = NoMesh THEN NoMesh
    ELSE IF meshes[mesh].meta # NoIndex THEN mesh
    ELSE findEntityMesh(meshes, meshes[mesh].parent)

\* GizmoManager's positionGizmoEnabled, rotationGizmoEnabled and
\* scaleGizmoEnabled setters: a gizmo is created the first time it is enabled
setGizmoEnabled(e, kind, on) ==
    IF on THEN [e EXCEPT !.gizmos = @ \cup {kind}, !.enabled = @ \cup {kind}]
    ELSE [e EXCEPT !.enabled = @ \ {kind},
                   !.hovered = IF e.hovered.kind = kind THEN NoHover ELSE @]

\* Level.setupGizmoObservers: handleTransformChange is registered on the
\* gizmos that exist
setupGizmoObservers(e) ==
    IF ~e.gm THEN e
    ELSE [e EXCEPT !.observers = @ \cup { << kind, handle >> : kind \in e.gizmos, handle \in Handles }]

\* Level.setupGizmoManager
setupGizmoManager(e) ==
    setupGizmoObservers(
        setGizmoEnabled([e EXCEPT !.gm = TRUE, !.gizmos = {}, !.enabled = {},
                                  !.attachedMesh = NoMesh, !.hovered = NoHover],
                        "position", TRUE))

\* Level.cleanupEditor
cleanupEditor(e) ==
    [e EXCEPT !.observers = {}, !.pointerObserver = FALSE, !.gm = FALSE, !.gizmos = {},
              !.enabled = {}, !.attachedMesh = NoMesh, !.hovered = NoHover]

\* Level.enableEditorMode
enableEditorMode(e) ==
    LET e1 == [cleanupEditor(e) EXCEPT
                  !.isEditorMode = TRUE,
                  !.portals = [index \in DOMAIN e.portals |-> setEditorMode(e.portals[index], TRUE)]]
    IN [setupGizmoManager(e1) EXCEPT !.pointerObserver = TRUE]

\* Level.setGizmoMode
setGizmoMode(e, mode) ==
    IF ~e.gm THEN e
    ELSE setGizmoEnabled(setGizmoEnabled(setGizmoEnabled(e, "position", mode = "position"),
                                         "rotation", mode = "rotation"),
                         "scale", mode = "scale")

\* isGizmoHovered that never sees a hovered handle
isGizmoHoveredNever(e) == FALSE

\* Level.isGizmoHovered
isGizmoHovered(e) == e.gm /\ e.hovered.kind \in e.gizmos

\* onEntitySelected(kind, index, mesh)
onSelect(e, kind, index) ==
    [e EXCEPT !.selects = @ + 1, !.lastSelect = [kind |-> kind, index |-> index]]

\* Level.handleEditorClick; pick is the picked mesh, NoMesh when nothing was hit
handleEditorClick(e, pick) ==
    IF isGizmoHovered(e) THEN e
    ELSE IF pick # NoMesh /\ findEntityMesh(e.meshes, pick) # NoMesh
         THEN onSelect([e EXCEPT !.attachedMesh = IF e.gm THEN findEntityMesh(e.meshes, pick) ELSE @],
                       "entity", e.meshes[findEntityMesh(e.meshes, pick)].meta)
         ELSE onSelect([e EXCEPT !.attachedMesh = NoMesh], "none", NoIndex)

\* the observer setupEditorPointerEvents registers, on a double tap
onDoubleTap(e, pick) ==
    IF isGizmoHovered(e) THEN e ELSE handleEditorClick(e, pick)

\* handleTransformChange inside setupGizmoObservers
handleTransformChange(e) ==
    IF e.attachedMesh = NoMesh THEN e
    ELSE IF e.meshes[e.attachedMesh].meta = NoIndex THEN e
    ELSE [e EXCEPT !.changes = @ + 1,
                   !.lastChange = [index |-> e.meshes[e.attachedMesh].meta,
                                   position |-> e.meshes[e.attachedMesh].position,
                                   rotation |-> e.meshes[e.attachedMesh].rotation,
                                   scaling |-> e.meshes[e.attachedMesh].scaling]]

\* the gizmo moves the attached mesh by one step of its kind
dragged(e, kind) ==
    [e EXCEPT !.drags = @ + 1,
              !.meshes[e.attachedMesh] =
                  CASE kind = "position" -> [@ EXCEPT !.position = @ + 1]
                    [] kind = "rotation" -> [@ EXCEPT !.rotation = @ + 1]
                    [] kind = "scale" -> [@ EXCEPT !.scaling = @ + 1]]

\* Level.spawnPortal: the portal is built with the Level's isEditorMode
edSpawnPortal(e, index) ==
    [e EXCEPT !.portals = MapSet(e.portals, index, NewPortal(e.isEditorMode))]

EdEnableEditorMode ==
    /\ ed' = [enableEditorMode(ed) EXCEPT !.entered = TRUE]
    /\ UNCHANGED notEd

\* Level.setEditorMode(enabled)
EdSetEditorMode(enabled) ==
    /\ ed' = [ed EXCEPT !.isEditorMode = enabled]
    /\ UNCHANGED notEd

\* a portal spawn reaches Level.spawnPortal: from load or from addEntityLive
EdSpawnPortal(index) ==
    /\ ed' = edSpawnPortal(ed, index)
    /\ UNCHANGED notEd

\* a pointer pick on the mesh of the portal at index
EdPortalClick(index) ==
    /\ index \in DOMAIN ed.portals
    /\ ed.portals[index].am
    /\ ed.portals[index].loads < MaxClicks
    /\ ed' = [ed EXCEPT !.portals[index] = onPick(@)]
    /\ UNCHANGED notEd

\* Level.setGizmoMode(mode)
SetGizmoMode(mode) ==
    /\ ed' = setGizmoMode(ed, mode)
    /\ UNCHANGED notEd

\* the pointer moves onto handle axis of an enabled gizmo, or off the handles
Hover(h) ==
    /\ ed.gm
    /\ h = NoHover \/ h.kind \in ed.enabled
    /\ ed' = [ed EXCEPT !.hovered = h]
    /\ UNCHANGED notEd

\* a double tap whose pick is mesh `pick`, or nothing
DoubleTap(pick) ==
    /\ ed.pointerObserver
    /\ ed.selects < MaxTaps
    /\ ed' = onDoubleTap(ed, pick)
    /\ UNCHANGED notEd

\* a drag event on handle axis of the enabled gizmo of the given kind
Drag(kind, axis) ==
    /\ ed.gm
    /\ kind \in ed.enabled
    /\ ed.attachedMesh # NoMesh
    /\ ed.drags < MaxDrags
    /\ ed' = IF << kind, axis >> \in ed.observers
             THEN handleTransformChange(dragged(ed, kind))
             ELSE dragged(ed, kind)
    /\ UNCHANGED notEd

\* the drag on the enabled gizmo of the given kind ends
DragEnd(kind) ==
    /\ ed.gm
    /\ kind \in ed.enabled
    /\ ed.attachedMesh # NoMesh
    /\ ed.drags < MaxDrags
    /\ ed' = IF << kind, "end" >> \in ed.observers
             THEN handleTransformChange([ed EXCEPT !.drags = @ + 1])
             ELSE [ed EXCEPT !.drags = @ + 1]
    /\ UNCHANGED notEd

InitEdPortals ==
    /\ LevelInit(MkConfig(<< >>, 0, {}))
    /\ QuestIdle
    /\ LaterIdle
    /\ NpcIdle
    /\ PortalIdle
    /\ ed = MkEditor(<< >>)

NextEdPortals ==
    \/ \E index \in 0..MaxIndex : EdSpawnPortal(index)
    \/ EdEnableEditorMode
    \/ \E enabled \in BOOLEAN : EdSetEditorMode(enabled)
    \/ \E index \in 0..MaxIndex : EdPortalClick(index)

SpecEdPortals == InitEdPortals /\ [][NextEdPortals]_vars

InitGizmo ==
    /\ LevelInit(MkConfig(<< >>, 0, {}))
    /\ QuestIdle
    /\ LaterIdle
    /\ NpcIdle
    /\ PortalIdle
    /\ \E scene \in Scenes : ed = MkEditor(scene)

NextGizmo ==
    \/ EdEnableEditorMode
    \/ \E mode \in GizmoKinds : SetGizmoMode(mode)
    \/ \E h \in {NoHover} \cup [kind : GizmoKinds, axis : Axes] : Hover(h)
    \/ \E pick \in 0..4 : DoubleTap(pick)
    \/ \E kind \in GizmoKinds, axis \in Axes : Drag(kind, axis)
    \/ \E kind \in GizmoKinds : DragEnd(kind)

SpecGizmo == InitGizmo /\ [][NextGizmo]_vars

\* ------------------------------------------------------------------------
\* Properties
\* ------------------------------------------------------------------------
\* the indices at which some registry holds an entity
Occupied == (DOMAIN npcs) \cup (DOMAIN portals) \cup (DOMAIN props)

\* no index is a key of two registries
OneRegistryPerIndex ==
    /\ (DOMAIN npcs) \cap (DOMAIN portals) = {}
    /\ (DOMAIN npcs) \cap (DOMAIN props) = {}
    /\ (DOMAIN portals) \cap (DOMAIN props) = {}

\* the registries hold live entities at exactly the indices 0..n-1
Dense ==
    /\ OneRegistryPerIndex
    /\ \E n \in 0..(MaxIndex + 1) : Occupied = 0..(n - 1)
    /\ \A o \in Referenced(Regs) : ~objs[o].disposed

\* the registry and the entity held at an occupied index
KindAt(k) == IF k \in DOMAIN npcs THEN "npc" ELSE IF k \in DOMAIN portals THEN "portal" ELSE "prop"

EntityAt(k) == IF k \in DOMAIN npcs THEN npcs[k] ELSE IF k \in DOMAIN portals THEN portals[k] ELSE props[k]

\* every registry entry is held by entityMeshIndex under the same key, and
\* entityMeshIndex has no other keys
MeshIndexAgrees ==
    /\ DOMAIN entityMeshIndex = Occupied
    /\ \A k \in Occupied :
         /\ \/ (k \in DOMAIN npcs /\ entityMeshIndex[k] = npcs[k])
            \/ (k \in DOMAIN portals /\ entityMeshIndex[k] = portals[k])
            \/ (k \in DOMAIN props /\ entityMeshIndex[k] = props[k])
         /\ ~objs[entityMeshIndex[k]].disposed

\* what C1 promises of a step that removes index i
RemovalShifts(i) ==
    /\ \A k \in Occupied \ {i} :
         LET k2 == IF k > i THEN k - 1 ELSE k
         IN /\ k2 \in Occupied'
            /\ KindAt(k2)' = KindAt(k)
            /\ EntityAt(k2)' = EntityAt(k)
    /\ EntityAt(i) \notin (MapValues(npcs) \cup MapValues(portals) \cup MapValues(props))'
    /\ Cardinality(DOMAIN entityMeshIndex') = Cardinality(Occupied) - 1
    /\ MeshIndexAgrees'

\* C1: removeEntityLive(i) on registries holding live entities at 0..n-1
\* takes the removed entity out of every registry, moves every entity at an
\* index above i one index down within its registry, leaves the entities
\* below i in place, and leaves entityMeshIndex with n-1 entries, each the
\* mesh of the entity registered at its key.
C1_RemoveShiftsIndices ==
    [][\A i \in 0..MaxIndex :
          (RemoveEntityLive(i) /\ Dense /\ i \in Occupied) => RemovalShifts(i)]_vars

\* the live-API calls made so far have all returned or settled
CallsCompleted == loadPc = "done" /\ pending = {}

\* C2: after any sequence of load and live-API calls no index is a key of
\* more than one of npcs, portals and props.
C2_SlotHasOneKind == CallsCompleted => OneRegistryPerIndex

\* C3: once every live-API call has returned or settled, entityMeshIndex
\* has a key k exactly when a registry holds a live entity at k, maps k to
\* the mesh of that entity, and that mesh's metadata index is k.
C3_IndexStructuresAgree ==
    CallsCompleted =>
        /\ MeshIndexAgrees
        /\ \A k \in DOMAIN entityMeshIndex : objs[entityMeshIndex[k]].meta.index = k

\* C4: after completed calls every object the Level created and has not
\* disposed is held in one of the three registries.
C4_NoLiveObjectDropped ==
    CallsCompleted =>
        \A o \in DOMAIN objs :
            ~objs[o].disposed =>
                o \in MapValues(npcs) \cup MapValues(portals) \cup MapValues(props)

\* the k-th spawn of the last load() threw inside spawnEntityAtIndex
Threw(k) == SpawnThrows(loadEnts[k], loadLog[k])

\* the k-th spawn of the last load() was a prop whose asset has no root mesh
NoRootMesh(k) == loadEnts[k].type = "prop" /\ loadLog[k] = "empty"

LiveCount == Cardinality(DOMAIN npcs) + Cardinality(DOMAIN portals) + Cardinality(DOMAIN props)

RegistryOf(t) == IF t = "npc" THEN npcs ELSE IF t = "portal" THEN portals ELSE props

\* every live entity is registered under its position in the spawn list,
\* in the registry of its type, and carries that position as metadata
RegisteredInPlace ==
    /\ OneRegistryPerIndex
    /\ \A i \in Occupied :
         /\ i < Len(loadEnts)
         /\ i \in DOMAIN RegistryOf(loadEnts[i + 1].type)
         /\ ~objs[EntityAt(i)].disposed
         /\ objs[EntityAt(i)].meta.index = i

LoadCompleted == loadPc = "done" /\ ~levelDisposed /\ Len(loadLog) = Len(loadEnts)

C6_OnceFiresOnce ==
    \A k \in DOMAIN fireCount : levelConfig.triggers[k].once => fireCount[k] <= 1

\* a tick found the player inside the radius of a once-trigger that had
\* fired on an earlier tick, and did not execute it again
C6_Witness ==
    /\ tickLog.ran
    /\ \E k \in tickLog.inRadius :
          /\ levelConfig.triggers[k].once
          /\ MapHas(triggerStates, levelConfig.triggers[k])
          /\ fireCount[k] = 1
          /\ k \notin tickLog.fired

\* C7: hotUpdate neither resets nor loses trigger state: a once-trigger that
\* fired stays fired, and a trigger that has not fired yet fires on the tick
\* that finds the player within its radius.
C7_HotUpdateKeepsTriggerState ==
    /\ \A k \in DOMAIN fireCount : levelConfig.triggers[k].once => fireCount[k] <= 1
    /\ (tickLog.ran /\ loadPc = "done") =>
          \A k \in tickLog.inRadius :
              \/ k \in tickLog.fired
              \/ (levelConfig.triggers[k].once /\ fireCount[k] >= 1)

\* C8: an update() tick in editor mode starts no NPC interaction, marks no
\* trigger as triggered and executes no trigger action.
C8_EditorTickIsInert ==
    (tickLog.ran /\ tickLog.editor) =>
        /\ tickLog.dispatch = NoIndex
        /\ tickLog.fired = {}
        /\ triggerStates = tickLog.statesBefore

\* C9: entering an NPC's interaction radius dispatches exactly one
\* interaction for it: none is dispatched again while the player stays in
\* range, and a tick whose proximity check runs and dispatches nothing
\* leaves no NPC in range without its dispatch for this visit.
C9_OneDispatchPerVisit ==
    tickLog.ran =>
        /\ tickLog.dispatch # NoIndex =>
              tickLog.dispatch \notin (tickLog.visitBefore \cap tickLog.near)
        /\ (tickLog.checked /\ tickLog.dispatch = NoIndex) =>
              \A i \in tickLog.near :
                  (i < Len(levelConfig.entities) /\ levelConfig.entities[i + 1].type = "npc")
                      => i \in inVisit

\* C10: a tick at whose start a dialogue or script is active dispatches no
\* interaction and changes no triggered-this-visit flag.
C10_NoProximityCheckDuringDialogue ==
    (tickLog.ran /\ tickLog.activeAtStart) =>
        /\ tickLog.dispatch = NoIndex
        /\ npcDialogueTriggered = tickLog.flagsBefore

\* a tick outside editor mode, during a dialogue, with the player in range
\* of an NPC whose flag is clear or out of range of one whose flag is set
C10_Witness ==
    /\ tickLog.ran
    /\ tickLog.activeAtStart
    /\ ~tickLog.editor
    /\ player.here
    /\ \/ \E i \in tickLog.near : i \notin tickLog.flagsBefore
       \/ \E i \in tickLog.flagsBefore : i \in DOMAIN npcs /\ i \notin tickLog.near


\* ---- quest graphs ----
Logged(ev, node) == \E k \in 1..Len(quest.log) : quest.log[k].ev = ev /\ quest.log[k].node = node

Executed(node) == Logged("node", node)

Picked == \E k \in 1..Len(quest.log) : quest.log[k].ev = "pick"

\* the first walk since construction is of the given graph
FirstWalkOf(graph) == quest.graph = graph /\ quest.starts = 1

\* C11: in the graph Start -> Say(A) -> Say(B) -> Choice([X, Y]), once the
\* dialogue with the lines A, B has completed and the Choice node has run,
\* the choice dialogue is the active dialogue until the user picks an option
C11_ChoiceStaysUntilPicked ==
    (FirstWalkOf(GraphSayChoice) /\ ~quest.threw /\ Executed(4) /\ ~Picked)
        => (dlg.active /\ dlg.visible /\ dlg.current.kind = "choice" /\ dlg.current.node = 4)


Walked(graph) == quest.starts > 0 /\ quest.graph = graph

\* the log entries that follow the pick of option `value`
NodesAfterPick(value) ==
    { k \in 1..Len(quest.log) :
        /\ quest.log[k].ev = "node"
        /\ \E j \in 1..(k - 1) : quest.log[j].ev = "pick" /\ quest.log[j].node = value }

ShownLine(text) == \E k \in 1..Len(quest.log) : quest.log[k].ev = "line" /\ quest.log[k].text = text

\* C12: a graph with an empty node list, without a Start node, with a node
\* of unknown type or with a dangling link raises no exception; the first
\* two start no dialogue, and at an unknown type or a dangling link the walk
\* stops without executing any node behind it
C12_MalformedGraphIsHarmless ==
    /\ (quest.starts > 0 /\ quest.graph \in MalformedGraphs) => ~quest.threw
    /\ (Walked(GraphEmpty) \/ Walked(GraphNoStart))
          => (quest.log = << >> /\ ~dlg.active /\ dlg.current = NoDialogue)
    /\ Walked(GraphUnknownFirst)
          => (quest.log = << Ev("node", 1, "Dialog/Start"), Ev("node", 2, "Dialog/Dance") >>
              /\ ~dlg.active)
    /\ Walked(GraphUnknownAfterSay) => (~Executed(4) /\ ~ShownLine("B"))
    /\ Walked(GraphMissingTarget) => (~Executed(3) /\ ~Executed(9) /\ ~ShownLine("B"))
    /\ Walked(GraphMissingLink) => (NodesAfterPick(0) = {})

\* the walk has reached the unknown node behind a Say node and has stopped
C12_Witness == Walked(GraphUnknownAfterSay) /\ Executed(3) /\ ~dlg.active


\* a step in which the user picks an option of the displayed Choice node
PickStep ==
    /\ dlg.current.kind = "choice"
    /\ Len(dlg.choices) > 0
    /\ Len(quest'.log) > Len(quest.log)
    /\ quest'.log[Len(quest.log) + 1].ev = "pick"

\* what picking an option must lead to: the node behind the option's slot is
\* the one node executed, a Say node is showing its first line, and without
\* a link the dialogue is stopped
ResumesAt(next) ==
    IF next = NoNode
    THEN ~dlg'.active /\ Len(quest'.log) = Len(quest.log) + 1
    ELSE /\ Len(quest'.log) > Len(quest.log) + 1
         /\ quest'.log[Len(quest.log) + 2] = Ev("node", next, getNode(quest.graph, next).type)
         /\ getNode(quest.graph, next).type = "Dialog/Say"
               => /\ dlg'.active
                  /\ dlg'.current.kind = "say"
                  /\ dlg'.current.node = next
                  /\ dlg'.lineIndex = 0
                  /\ dlg'.isTyping
                  /\ quest'.log = quest.log \o
                        << quest'.log[Len(quest.log) + 1],
                           Ev("node", next, "Dialog/Say"),
                           Ev("line", next, getNode(quest.graph, next).text) >>

\* C13: selecting option i of a Choice node resumes the walk at the node
\* linked from output slot i and nowhere else, a Say successor starting with
\* its first line; without a link the dialogue is stopped
C13_ChoiceResumesAtSlot ==
    [][PickStep =>
          ResumesAt(getNextNode(quest.graph, getNode(quest.graph, dlg.current.node),
                                quest'.log[Len(quest.log) + 1].node))]_vars


\* ---- the NPC wrapper ----
\* some animation matches the name exactly, ignoring case, or by containing
\* it (ignoring case)
Matches(animList, name) ==
    \E k \in 1..Len(animList) :
        \/ animList[k] = name
        \/ toLowerCase(animList[k]) = toLowerCase(name)
        \/ includes(toLowerCase(animList[k]), toLowerCase(name))

Played == npcw.call.op = "playAnimation"

\* what a playAnimation call that found a match leaves behind: nothing new
\* if the match was already current, otherwise the match alone playing
MatchPlays ==
    LET anim == resolve(npcw.animList, npcw.call.name)
    IN IF anim = npcw.call.currentBefore
       THEN npcw.currentAnim = npcw.call.currentBefore /\ npcw.playing = npcw.call.playingBefore
       ELSE npcw.currentAnim = anim /\ npcw.playing = {anim}

OneCurrent == Cardinality(npcw.playing) <= 1 /\ npcw.playing \subseteq {npcw.currentAnim}

\* C14 as stated: playAnimation(name) returns true exactly when some
\* animation matches the name; a match that is already current changes
\* nothing, any other match is started after every animation was stopped, and
\* at most one animation is current at any time
C14_PlayAnimationMatches ==
    /\ Played => /\ npcw.call.result = Matches(npcw.animList, npcw.call.name)
                 /\ npcw.call.result => MatchPlays
    /\ OneCurrent

\* C14 amended: the same for an NPC that has not been disposed; a disposed
\* NPC answers false and changes nothing
C14_LivePlayAnimationMatches ==
    /\ (Played /\ ~npcw.call.disposedBefore)
          => /\ npcw.call.result = Matches(npcw.animList, npcw.call.name)
             /\ npcw.call.result => MatchPlays
             /\ ~npcw.call.result => (/\ npcw.currentAnim = npcw.call.currentBefore
                                      /\ npcw.playing = npcw.call.playingBefore)
    /\ (Played /\ npcw.call.disposedBefore)
          => (~npcw.call.result /\ npcw.currentAnim = NoAnim /\ npcw.playing = {})
    /\ OneCurrent

\* a call that switched from one playing animation to another, matched only
\* through the case-insensitive lookup
C14_Witness ==
    /\ Played
    /\ npcw.call.result
    /\ npcw.call.currentBefore # NoAnim
    /\ npcw.currentAnim # npcw.call.currentBefore
    /\ \A k \in 1..Len(npcw.animList) : npcw.animList[k] # npcw.call.name


\* ---- the Portal wrapper and disposal ----
\* C15: whichever way a portal was disposed of, directly or by the Level
\* disposing its mesh, the per-frame animation hook is gone and the light,
\* the material and the mesh have each been released exactly once
C15_PortalReleasedOnce ==
    \A i \in PortalIds :
        ptl[i].path # "none"
            => /\ ~ptl[i].renderObserver
               /\ ptl[i].light = 1
               /\ ptl[i].material = 1
               /\ ptl[i].mesh = 1


\* how many dispose() calls each releasable resource has received
Releases ==
    << npcw.agDisposed, npcw.meshDisposed,
       [i \in PortalIds |-> << ptl[i].light, ptl[i].material, ptl[i].mesh >>],
       rt.player, rt.shadowGenerator, rt.pipeline, rt.scene >>

\* a dispose() call on an object that has been disposed before
SecondDispose ==
    \/ NpcDisposeDirect /\ npcw.disposed
    \/ \E i \in PortalIds : PortalDispose(i) /\ ptl[i].disposed
    \/ LevelDispose /\ rt.calls > 0

\* C16: a second dispose() on an NPC, a Portal or the Level releases nothing
\* again: no animation group, mesh, light, material, player, shadow
\* generator, render pipeline or scene receives another dispose()
C16_SecondDisposeReleasesNothing == [][SecondDispose => Releases' = Releases]_vars


\* a non-disposed portal carries its one click handler exactly when it is not
\* in editor mode
HandlerIffGameMode ==
    \A i \in PortalIds :
        ~ptl[i].disposed
            => /\ ptl[i].am = ~ptl[i].editorMode
               /\ ptl[i].handlers = (IF ptl[i].editorMode THEN 0 ELSE 1)

\* a level load or a teleport sound is requested only by a click on a portal
\* that is neither disposed nor in editor mode, which requests one of each
TravelOnlyOnGameClick ==
    \A i \in PortalIds :
        (ptl'[i].loads # ptl[i].loads \/ ptl'[i].sounds # ptl[i].sounds)
            => /\ PortalClick(i)
               /\ ~ptl[i].disposed
               /\ ~ptl[i].editorMode
               /\ ptl'[i].loads = ptl[i].loads + 1
               /\ ptl'[i].sounds = ptl[i].sounds + 1

\* C17: a portal requests a level load and plays the teleport sound only on
\* a pointer activation while it is neither in editor mode nor disposed, and
\* after any sequence of editorMode assignments a non-disposed portal has a
\* click handler exactly when editorMode is false
C17_TravelOnlyInGameMode == []HandlerIffGameMode /\ [][TravelOnlyOnGameClick]_vars

\* a portal that travelled on a click in game mode has been switched to
\* editor mode and has lost its click handler
C17_Witness ==
    \E i \in PortalIds :
        ~ptl[i].disposed /\ ptl[i].editorMode /\ ~ptl[i].am /\ ptl[i].loads = 1


\* ---- the editor session ----
\* C18: once enableEditorMode has been called, every portal in the Level's
\* registry is in editor mode and carries no click handler, the portals
\* spawned afterwards included
C18_PortalsStayDisabled ==
    ed.entered
        => \A index \in DOMAIN ed.portals :
               /\ ed.portals[index].editorMode
               /\ ~ed.portals[index].am
               /\ ed.portals[index].handlers = 0

\* the picked mesh followed by its ancestors, nearest first
RECURSIVE Lineage(_, _)
Lineage(meshes, mesh) ==
    IF mesh = NoMesh THEN << >> ELSE << mesh >> \o Lineage(meshes, meshes[mesh].parent)

\* the nearest mesh of the lineage that carries entity metadata, if any
NearestEntity(meshes, pick) ==
    LET line == Lineage(meshes, pick)
        hits == { k \in 1..Len(line) : meshes[line[k]].meta # NoIndex }
    IN IF hits = {} THEN NoMesh ELSE line[CHOOSE k \in hits : \A j \in hits : k <= j]

\* what a double tap must do
TapSelects(pick) ==
    IF ed.hovered # NoHover
    THEN ed' = ed
    ELSE /\ ed'.selects = ed.selects + 1
         /\ IF NearestEntity(ed.meshes, pick) # NoMesh
            THEN /\ ed'.lastSelect = [kind |-> "entity",
                                      index |-> ed.meshes[NearestEntity(ed.meshes, pick)].meta]
                 /\ ed'.attachedMesh = NearestEntity(ed.meshes, pick)
            ELSE /\ ed'.lastSelect = [kind |-> "none", index |-> -1]
                 /\ ed'.attachedMesh = NoMesh

\* C19: in editor mode a double tap with no axis handle hovered calls
\* onSelect once, with ("entity", k) and the gizmo attached to the nearest
\* ancestor-or-self of the picked mesh that carries entity metadata, or with
\* ("none", -1) and the gizmo detached when there is none; with a handle
\* hovered it calls nothing and leaves the attachment as it was
C19_DoubleTapSelects == [][\A pick \in 0..4 : DoubleTap(pick) => TapSelects(pick)]_vars

\* the second double tap selected entity 1, nested below entity 0, after an
\* earlier one, and a handle is hovered now
C19_Witness ==
    /\ ed.selects = 2
    /\ ed.lastSelect = [kind |-> "entity", index |-> 1]
    /\ ed.attachedMesh = 3
    /\ ed.meshes[3].parent = 2
    /\ ed.hovered # NoHover

DragStep ==
    \/ \E kind \in GizmoKinds, axis \in Axes : Drag(kind, axis)
    \/ \E kind \in GizmoKinds : DragEnd(kind)

\* C20: with an entity attached, every drag and drag-end event of the
\* enabled manipulator calls onTransformChange with the entity's index and
\* its position, rotation and scale as they are after the event
C20_DragReportsTransform ==
    [][(DragStep /\ ed.attachedMesh # NoMesh /\ ed.meshes[ed.attachedMesh].meta # NoIndex)
          => /\ ed'.changes = ed.changes + 1
             /\ ed'.lastChange = [index |-> ed'.meshes[ed.attachedMesh].meta,
                                  position |-> ed'.meshes[ed.attachedMesh].position,
                                  rotation |-> ed'.meshes[ed.attachedMesh].rotation,
                                  scaling |-> ed'.meshes[ed.attachedMesh].scaling]]_vars

\* ---- model swaps ----
\* the swap on record has ended and found an entity at its index
SwapEnded(op) == sw.op = op /\ sw.had /\ sw.settled

\* the object has the transform the swap on record found
KeepsTransform(o) ==
    /\ objs[o].position = sw.position
    /\ objs[o].rotation = sw.rotation
    /\ objs[o].scaling = sw.scaling

\* C21: when swapPropModel(index, asset) on an index holding a live prop has
\* ended, one live prop is registered at that index with the position,
\* rotation and scale the old prop had when the call started, and the old
\* prop has received dispose() exactly once
C21_SwapPropKeepsTransform ==
    SwapEnded("swapProp")
        => /\ MapHas(props, sw.index)
           /\ ~objs[props[sw.index]].disposed
           /\ KeepsTransform(props[sw.index])
           /\ sw.disposals = 1

\* the swap on record has returned normally
SwapReturned(op) == SwapEnded(op) /\ sw.outcome = "ok"

\* C22: when swapNPCModel(index, ...) has completed, the replacement NPC is
\* registered in the name index under the name the old NPC of that index was
\* registered under, and every trigger that targets that name resolves to
\* the replacement
C22_SwapNPCKeepsName ==
    SwapReturned("swapNPC")
        => /\ MapHas(npcs, sw.index)
           /\ MapHas(npcNameIndex, sw.name)
           /\ npcNameIndex[sw.name] = npcs[sw.index]
           /\ \A k \in 1..Len(levelConfig.triggers) :
                 levelConfig.triggers[k].target = sw.name
                    => npcNameIndex[levelConfig.triggers[k].target] = npcs[sw.index]

\* C23: when swapNPCModel(index, ...) has completed, the replacement NPC
\* stands at the position the old NPC had when the swap was requested,
\* also when updateEntityTransform had moved the old NPC
C23_SwapNPCKeepsPosition ==
    SwapReturned("swapNPC")
        => /\ MapHas(npcs, sw.index)
           /\ objs[npcs[sw.index]].position = sw.position

\* ---- music ----
\* hotUpdate(config) touched the audio only if the key differs from the
\* current one, and then made the key the current one
MusicDiffed(config) ==
    IF config.music = audio.currentMusic
    THEN audio' = [audio EXCEPT !.calls = << >>]
    ELSE /\ audio'.calls = IF Truthy(config.music) THEN << "stopAll", "play" >> ELSE << "stopAll" >>
         /\ audio'.currentMusic = config.music

\* the same hotUpdate made again would make no audio call
RepeatIsSilent(config) == hotUpdateMusic(audio', config).calls = << >>

LoadIsNoOp ==
    /\ lm'.error = "none"
    /\ lm'.currentLevel = lm.currentLevel
    /\ lm'.levels = lm.levels
    /\ lm'.loads = lm.loads + 1

\* C25: LevelManager.load(id) with an id that has neither a factory nor a
\* stored document raises no error and leaves the current level current and
\* not disposed
C25_UnknownLevelIsNoOp ==
    [][\A id \in LevelIds \ KnownIds, doc \in LevelDocs : LmLoad(id, doc) => LoadIsNoOp]_vars

\* C27: no update() tick on the current level raises an error, at whatever
\* stage of its load() the level is and whatever effects it declares
C27_TickNeverThrows == lm.error # "update"

\* ---- dispose with asset loads in flight ----
\* no spawn's asset load is awaited any more
NothingInFlight == pending = {} /\ loadPc = "done"

\* every registry and index is empty and every object made is torn down
TornDown ==
    /\ npcs = EmptyMap /\ portals = EmptyMap /\ props = EmptyMap
    /\ entityMeshIndex = EmptyMap /\ npcNameIndex = EmptyMap
    /\ \A o \in DOMAIN objs : objs[o].disposed

\* C26: once every asset load that was in flight at Level.dispose() has
\* settled, the objects those loads spawned are torn down and every registry
\* and index of the disposed level is empty
C26_DisposedLevelStaysEmpty == levelDisposed /\ NothingInFlight => TornDown

\* ---- removal in the revision of src/unnamed/part_008 ----
\* the key of an entry at j after removal of index i
ShiftedKey(j, i) == IF j > i THEN j - 1 ELSE j

\* a registry after removal of index i: every other entry is held under its
\* shifted key, and a click on it reports that key
RegistryShifts(map, map2, os2, i) ==
    /\ DOMAIN map2 = { ShiftedKey(j, i) : j \in (DOMAIN map) \ {i} }
    /\ \A j \in (DOMAIN map) \ {i} :
         /\ map2[ShiftedKey(j, i)] = map[j]
         /\ clickedIndex(os2, map[j]) = ShiftedKey(j, i)

\* the asset load of p settles and yields an object
SettlesOk(p) ==
    \/ AddEntityLiveSettle(p, "ok")
    \/ SwapNPCModelSettle(p, "ok")
    \/ SwapPropModelSettle(p, "ok")

\* the step registers the object it has made under key k: registry key,
\* mesh index and metadata
LandsAt(k) ==
    \E o \in (DOMAIN objs') \ (DOMAIN objs) :
       /\ \/ (MapHas(npcs', k) /\ npcs'[k] = o)
          \/ (MapHas(props', k) /\ props'[k] = o)
       /\ MapHas(entityMeshIndex', k)
       /\ entityMeshIndex'[k] = o
       /\ objs'[o].meta.index = k

\* every live entity of the registries is still in them after the step
NoneOverwritten ==
    \A o \in MapValues(npcs) \cup MapValues(portals) \cup MapValues(props) :
       ~objs[o].disposed => o \in (MapValues(npcs) \cup MapValues(portals) \cup MapValues(props))'

\* C28: an addEntityLive, swapNPCModel or swapPropModel at index j whose
\* asset load completes after removeEntityLive(i), i < j, registers its
\* object at j-1 (registry key, mesh index and metadata index) and
\* overwrites no other live entity
C28_LateSpawnLandsOnShiftedIndex ==
    [][\A p \in pending :
          (p.below > 0 /\ SettlesOk(p)) => (LandsAt(p.index - p.below) /\ NoneOverwritten)]_vars

\* C29: in the revision of part_008, removeEntityLive(i) leaves every other
\* entity of the three registries under its shifted key (j-1 above i, j
\* below i) with the same key as its metadata index, which is the index an
\* editor click on it reports
C29_RemoveRewritesMetadata ==
    [][\A i \in 0..MaxIndex :
          RemoveEntityLiveRebuilding(i)
             => /\ RegistryShifts(npcs, npcs', objs', i)
                /\ RegistryShifts(portals, portals', objs', i)
                /\ RegistryShifts(props, props', objs', i)]_vars

\* removeEntityLive(0) has removed the guard: the wife spawned at index 1
\* by load() is held at index 0 and the portal spawned at index 2 at index 1
C29_Witness ==
    /\ loadLog = << "ok", "ok", "ok" >>
    /\ liveCalls = 1
    /\ pending = {}
    /\ DOMAIN npcs = {0}
    /\ DOMAIN portals = {1}
    /\ props = EmptyMap
    /\ ~objs[npcs[0]].disposed
    /\ objs[npcs[0]].meta.id = "wife"
    /\ clickedIndex(objs, npcs[0]) = 0
    /\ clickedIndex(objs, portals[1]) = 1

\* ---- re-arming of the NPC interaction ----
\* C30: an NPC whose interaction was dispatched and whose radius the player
\* was seen to have left on a later tick has its interaction dispatched on
\* the next tick that checks proximity (play mode, no dialogue active) with
\* the player within its radius
C30_LeavingRearms ==
    (tickLog.ran /\ tickLog.checked) =>
        \A i \in tickLog.near :
            (i \in tickLog.flagsBefore /\ i \notin tickLog.visitBefore) => tickLog.dispatch = i

\* ---- quest graphs with cycles ----
\* C31: every call of executeQuestGraph and of the callbacks it registers
\* returns to the frame loop: the Say loop ends and the recursion of runStep
\* stays within the call stack, also for graphs whose links form a cycle
C31_QuestWalkReturns == quest.stuck = "no"

\* ---- trigger targets ----
\* the NPC a trigger's target name resolves to is alive and registered
TargetIsLive(name) ==
    MapHas(npcNameIndex, name) =>
        /\ ~objs[npcNameIndex[name]].disposed
        /\ npcNameIndex[name] \in MapValues(npcs)

\* C32: at every moment an update tick can run on the loaded level, also
\* while the asset load of a swap is pending and after a swap or a removal,
\* every NPC that processTriggers resolves a trigger target to through
\* npcNameIndex is an undisposed NPC held in npcs
C32_TriggerTargetsAreLive ==
    Live => \A k \in 1..Len(levelConfig.triggers) : TargetIsLive(levelConfig.triggers[k].target)

\* ---- overlapping LevelManager.load calls ----
\* the load() of every level made has resolved or rejected
AllLoaded == \A k \in 1..Len(lm.levels) : lm.levels[k].stage \in {"loaded", "rejected"}

\* level k was made by the latest LevelManager.load call, and that call
\* came while the load() of an earlier level was pending
MadeOverPending(k) == lm.levels[k].call = lm.loads /\ lm.levels[k].over # NoLevel

\* C33: when LevelManager.load(b) was called while load(a) was pending and
\* both have settled, b's level is current, a's level is disposed, and b's
\* level has been started exactly once, after its load() resolved
C33_LatestLoadWins ==
    \A k \in 1..Len(lm.levels) :
        (MadeOverPending(k) /\ AllLoaded)
            => /\ lm.currentLevel = k
               /\ lm.levels[lm.levels[k].over].disposals > 0
               /\ lm.levels[k].starts = 1
               /\ ~lm.levels[k].early

\* ---- ScriptManager ----
\* C37: ScriptManager.next() returns, a line or null, for every loaded
\* script and every variable state, also when the goto lines of the script
\* form a cycle with no say or choice line in between
C37_NextReturns == scr.last.call = "next" => ~scr.last.threw

\* the amount N written in an action, 1 when it is omitted
Written(args) == IF Len(args) >= 2 THEN ParseInt(args[2]) ELSE 1

\* C38: for every non-negative integer N written in a script action,
\* [set name N] leaves the variable equal to N, [give name N] increases it
\* by N and [take name N] decreases it by N but never below 0, and the
\* amount is 1 only when N is omitted
C38_ActionUsesWrittenAmount ==
    \A i \in 1..Len(scr.last.acts) :
        LET act == scr.last.acts[i]
            N == Written(act.args)
        IN  (Len(act.args) >= 1 /\ N # NaN)
                => /\ act.command = "set" => act.now = N
                   /\ act.command = "give" => act.now = act.had + N
                   /\ act.command = "take" => act.now = IF act.had < N THEN 0 ELSE act.had - N

\* ---- DialogueManager of src/unnamed/part_011 ----
\* the completion callback of what was started last, when there is one
Owed(e) == e.owed # NoCallback

\* C34: every end() calls the completion callback of the dialogue or script
\* that ends, once and with the manager's state cleared, and when that
\* callback has started a dialogue or script, the manager is active, has
\* its input listener attached and is not hidden when end() returns
C34_EndCallsBackOnceCleared ==
    \A i \in 1..Len(talk.ends) :
        LET e == talk.ends[i]
        IN  /\ e.ran = e.owed
            /\ e.calls = IF Owed(e) THEN 1 ELSE 0
            /\ e.clear
            /\ e.started => (e.active /\ e.listener /\ ~e.hidden)

\* the choices shown belong to a registered dialogue
OfDialogue(p) == p.of \in DOMAIN Talks

HasOnChoice(p) == Len(Talks[p.of].onChoice) > 0

\* the callback left another dialogue current
Replaced(p) == p.after # p.before /\ p.after # ""

AtFirstLine(id) ==
    /\ talk.current = id
    /\ talk.lineIndex = 0
    /\ talk.currentLine = Talks[id].lines[1]

\* C35: a choice selected on a dialogue calls its onChoice once; a
\* different dialogue started by it is left at its first line, and the
\* manager advances exactly when the current dialogue is unchanged
C35_ChoiceCallsOnChoiceOnce ==
    \A i \in 1..Len(talk.picked) :
        LET p == talk.picked[i]
        IN  OfDialogue(p)
                => /\ p.calls = IF HasOnChoice(p) THEN 1 ELSE 0
                   /\ Replaced(p) => AtFirstLine(p.after)
                   /\ p.advanced <=> p.after = p.before

ScriptLineAt(s) == s.blocks[s.currentBlock][s.currentIndex]

\* the manager shows a choice line of the running script, typed out
ScriptChoiceShown(t, s) ==
    /\ t.active /\ t.lineOf = "script" /\ ~t.isTyping
    /\ s.active /\ MapHas(s.blocks, s.currentBlock)
    /\ s.currentIndex \in 1..Len(s.blocks[s.currentBlock])
    /\ ScriptLineAt(s).type = "choice"

\* the options of that line whose condition holds
Holding(s) == SelectSeq(ScriptLineAt(s).options, LAMBDA opt : checkCondition(s, opt.condition))

ShowsHolding(t, s) ==
    /\ Len(t.choices) = Len(Holding(s))
    /\ \A k \in 1..Len(t.choices) :
            t.choices[k].text = Holding(s)[k].text /\ t.choices[k].value = k - 1

\* the script has read on from the first line of the block `target`; a
\* target END or a block that is not there has ended the script
ContinuesAt(t, s, target) ==
    IF target = "END" \/ ~MapHas(s.blocks, target)
    THEN ~s.active /\ Len(t.ends) > 0
    ELSE LET first == s.blocks[target][1]
         IN  /\ first.type = "say" => t.currentLine.text = first.text /\ s.currentBlock = target
             /\ first.type = "choice" => ScriptLineAt(s) = first /\ s.currentBlock = target
             /\ first.type = "action"
                    => Len(s.last.acts) > 0 /\ s.last.acts[1].command = first.command
             /\ first.type = "goto" /\ first.target = "END" => ~s.active

\* C39: a choice line of a script shows exactly the options whose condition
\* holds for the current variables, in script order, and selecting the k-th
\* shown option continues the script at the first line of the block that
\* option names as its target
C39_ScriptChoicesFollowConditions ==
    [][/\ ScriptChoiceShown(talk', scr') => ShowsHolding(talk', scr')
       /\ \A value \in 0..3 :
            (ScriptChoiceShown(talk, scr) /\ TalkChoose(value))
                => ContinuesAt(talk', scr', Holding(scr)[value + 1].target)]_vars

\* with "vault" held back, the second option shown, "leave", was selected
\* and has ended the script
C39_Witness ==
    \E i \in 1..Len(talk.picked) :
        LET p == talk.picked[i]
        IN  p.of = "script" /\ p.value = 1 /\ p.text = "leave" /\ p.target = "END" /\ ~scr.active

\* ---- LevelStore ----
StoreNonEmpty == Cardinality(store.levels) >= 1

SameIds == store.levels = store.meta

DeleteTruthful == (store.last.call = "delete" /\ store.last.returned) => store.last.removed

\* C40: after construction and every call the store holds at least one
\* level, its level map and its metadata map have the same ids, and a
\* delete(id) that returned true has removed the level with that id
C40_StoreKeepsItsMapsAligned == StoreNonEmpty /\ SameIds /\ DeleteTruthful

====
